---------------------------- MODULE Spec2Model ----------------------------
(***************************************************************************)
(* Date extraction, normalisation and cross-source validation engine of    *)
(* the VNEXSUS validation scripts (src/scripts/*.py).                      *)
(*                                                                         *)
(* Texts are sequences of characters, one string per character.  A canonical date is the  *)
(* ten-character sequence YYYY-MM-DD.  Percentages (accuracy, coverage,    *)
(* precision) are exact fractions [num, den]: Python computes              *)
(* matched / count * 100 in IEEE doubles, and for every count below 3000   *)
(* the double compares with 60, 80 and 100 exactly as the fraction does.   *)
(***************************************************************************)
EXTENDS Integers, Sequences, FiniteSets, TLC

VARIABLES
    script,          \* the script being run
    given,           \* what the input text was written from
    now,             \* datetime.now() as a day number (date.toordinal)
    text,            \* extractor input (the text argument)
    dates,           \* extract_dates_comprehensive result: key -> first literal
    dates_set,       \* extract_dates result: set of canonical keys
    baseline_text,   \* contents of the reference (baseline / GT) file
    generated_text,  \* contents of the candidate (generated report / OCR) file
    llm_dates,       \* dates a language model added (multi-model-comparison)
    result,          \* the record validate_case / analyze_case returns
    swapped,         \* the same comparison with the two sides exchanged
    date_str,        \* validator / normaliser input
    valid,           \* is_valid_date(date_str)
    impossible,      \* is_impossible_date(date_str)
    normalized,      \* normalize_date*(date_str), and the same applied again
    accuracy,        \* classify_grade input
    grade,           \* classify_grade(accuracy)
    blocks,          \* the OCR blocks of a document (deep-ocr-error-analysis)
    error_date,      \* the discrepant date given to the classifier
    block_idx,       \* what find_block_with_date(blocks, error_date) came back with
    analysis,        \* outcome of classify_error_type(error_date, blocks, ...)
    calls,           \* the helpers classify_error_type has called, in order
    valid_llm,       \* validate-28-with-llm is_valid_date(date_str)
    valid_enhanced,  \* quick-validate-enhanced is_valid_date_enhanced(date_str)
    ocr_validated,   \* validate-ocr-quality-28 extract_dates_from_text(text)
    multi_validated, \* multi-model-comparison extract_dates_from_text(text)
    date_sequence,   \* the list all_dates of analyze_date_sequence, after its sort
    close_blocks,    \* find_spatially_close_blocks(blocks, target, max_distance)
    outcomes,        \* how each validator's call on date_str ended
    batch,           \* main's loop over the cases: the cases, the position, results
    tasks            \* the model calls that asyncio.gather awaits

vars == <<script, given, now, text, dates, dates_set, baseline_text, generated_text,
          llm_dates, result, swapped, date_str, valid, impossible, normalized,
          accuracy, grade, blocks, error_date, block_idx, analysis, calls,
          valid_llm, valid_enhanced, ocr_validated, multi_validated,
          date_sequence, close_blocks, outcomes, batch, tasks>>

extractVars == <<text, dates, dates_set>>
caseVars == <<baseline_text, generated_text, llm_dates, result, swapped>>
dateVars == <<date_str, valid, impossible, normalized>>
gradeVars == <<accuracy, grade>>
classifyVars == <<blocks, error_date, block_idx, analysis, calls>>
maturityVars == <<valid_llm, valid_enhanced>>
validatedVars == <<ocr_validated, multi_validated>>
sequenceVars == <<date_sequence, close_blocks>>
auditVars == <<sequenceVars, outcomes, batch, tasks>>

\* A variable the running script has not set yet holds Nothing; one it has
\* set holds Some(value).  An input the running script does not read is empty.
Nothing == <<>>
Some(v) == <<v>>
Got(x) == x # <<>>
Val(x) == x[1]

\* the variables of the scripts that are not running
ClassifierIdle ==
    /\ blocks = <<>> /\ error_date = <<>>
    /\ block_idx = Nothing /\ analysis = Nothing /\ calls = <<>>
MaturityIdle == valid_llm = Nothing /\ valid_enhanced = Nothing
ValidatedIdle == ocr_validated = Nothing /\ multi_validated = Nothing
SequenceIdle == date_sequence = Nothing /\ close_blocks = Nothing
RobustIdle == outcomes = Nothing
BatchIdle == batch = Nothing
GatherIdle == tasks = Nothing
AuditIdle == SequenceIdle /\ RobustIdle /\ BatchIdle /\ GatherIdle

(***************************************************************************)
(* Characters                                                              *)
(***************************************************************************)
Digits == {"0", "1", "2", "3", "4", "5", "6", "7", "8", "9"}

\* \d of the patterns (ASCII digits of the model alphabet)
IsDigit(c) == c \in Digits

\* \s of the patterns
IsSpace(c) == c \in {" ", "\n", "\t"}

DigitVal(c) ==
    CASE c = "0" -> 0 [] c = "1" -> 1 [] c = "2" -> 2 [] c = "3" -> 3
      [] c = "4" -> 4 [] c = "5" -> 5 [] c = "6" -> 6 [] c = "7" -> 7
      [] c = "8" -> 8 [] c = "9" -> 9

DigitChar(n) ==
    CASE n = 0 -> "0" [] n = 1 -> "1" [] n = 2 -> "2" [] n = 3 -> "3"
      [] n = 4 -> "4" [] n = 5 -> "5" [] n = 6 -> "6" [] n = 7 -> "7"
      [] n = 8 -> "8" [] n = 9 -> "9"

\* mutant of Zfill2: the leading zero is not written
Zfill2_NoPad(s) == s

\* str.zfill(2) on a string of digits
Zfill2(s) == IF Len(s) >= 2 THEN s ELSE IF Len(s) = 1 THEN <<"0">> \o s ELSE <<"0", "0">>

\* f"{year}-{month.zfill(2)}-{day.zfill(2)}"
Normalized(year, month, day) == year \o <<"-">> \o Zfill2(month) \o <<"-">> \o Zfill2(day)

(***************************************************************************)
(* The date patterns.  Every pattern of the scripts has the shape          *)
(*   \d{4} [\s*] SEP1 [\s*] \d{1,2} [\s*] SEP2 [\s*] \d{1,2} ([\s*] SEP3)? *)
(* No separator is a digit or a space, so the greedy quantifiers never     *)
(* succeed after backtracking: \d{1,2} takes the longest run of digits (at *)
(* most two) and \s* the whole run of spaces, or the match fails.          *)
(***************************************************************************)
PatHyphen == [sep1 |-> {"-"}, sep2 |-> {"-"}, sep3 |-> {}, ws |-> FALSE]
PatDot    == [sep1 |-> {"."}, sep2 |-> {"."}, sep3 |-> {}, ws |-> FALSE]
PatSlash  == [sep1 |-> {"/"}, sep2 |-> {"/"}, sep3 |-> {}, ws |-> FALSE]
PatClass  == [sep1 |-> {"-", ".", "/"}, sep2 |-> {"-", ".", "/"}, sep3 |-> {}, ws |-> FALSE]
\* The Hangul syllables of the Korean pattern are written as the tokens
\* "NYEON" (U+B144, year), "WOL" (U+C6D4, month) and "IL" (U+C77C, day); every
\* other non-ASCII character of a text is a token of its own as well.
PatKorean == [sep1 |-> {"NYEON"}, sep2 |-> {"WOL"}, sep3 |-> {"IL"}, ws |-> TRUE]

\* number of digits at text[i..], at most max
RECURSIVE DigitRun(_, _, _)
DigitRun(t, i, max) ==
    IF max = 0 \/ i > Len(t) \/ ~IsDigit(t[i]) THEN 0
    ELSE 1 + DigitRun(t, i + 1, max - 1)

\* first index at or after i that holds no space (Len(t) + 1 at the end)
RECURSIVE SkipSpaces(_, _)
SkipSpaces(t, i) ==
    IF i <= Len(t) /\ IsSpace(t[i]) THEN SkipSpaces(t, i + 1) ELSE i

NoMatch == [ok |-> FALSE]

\* the regex engine's attempt to match pat with the match starting at index i
MatchAt(t, i, pat) ==
    LET skip(j) == IF pat.ws THEN SkipSpaces(t, j) ELSE j
        p1 == skip(i + 4)
        p2 == skip(p1 + 1)
        ml == DigitRun(t, p2, 2)
        p3 == skip(p2 + ml)
        p4 == skip(p3 + 1)
        dl == DigitRun(t, p4, 2)
        p5 == skip(p4 + dl)
        stop == IF pat.sep3 = {} THEN p4 + dl ELSE p5 + 1
    IN  IF /\ DigitRun(t, i, 4) = 4
           /\ p1 <= Len(t) /\ t[p1] \in pat.sep1
           /\ ml >= 1
           /\ p3 <= Len(t) /\ t[p3] \in pat.sep2
           /\ dl >= 1
           /\ (pat.sep3 = {} \/ (p5 <= Len(t) /\ t[p5] \in pat.sep3))
        THEN [ok |-> TRUE,
              year |-> SubSeq(t, i, i + 3),
              month |-> SubSeq(t, p2, p2 + ml - 1),
              day |-> SubSeq(t, p4, p4 + dl - 1),
              group0 |-> SubSeq(t, i, stop - 1),
              start |-> i,
              stop |-> stop]
        ELSE NoMatch

\* re.finditer(pattern, text): the non-overlapping matches, leftmost first
RECURSIVE FindIterFrom(_, _, _)
FindIterFrom(t, i, pat) ==
    IF i > Len(t) THEN <<>>
    ELSE LET m == MatchAt(t, i, pat)
         IN  IF m.ok THEN <<m>> \o FindIterFrom(t, m.stop, pat)
             ELSE FindIterFrom(t, i + 1, pat)

FindIter(t, pat) == FindIterFrom(t, 1, pat)

\* every match of every pattern, in the order the nested loops visit them
RECURSIVE AllMatches(_, _)
AllMatches(t, patterns) ==
    IF patterns = <<>> THEN <<>>
    ELSE FindIter(t, Head(patterns)) \o AllMatches(t, Tail(patterns))

MatchKey(m) == Normalized(m.year, m.month, m.day)

(***************************************************************************)
(* Extractors                                                              *)
(***************************************************************************)
FourPatterns == <<PatHyphen, PatDot, PatSlash, PatKorean>>
\* mutant of TwoPatterns: the separator class lacks the dot
TwoPatterns_NoDot ==
    <<[sep1 |-> {"-", "/"}, sep2 |-> {"-", "/"}, sep3 |-> {}, ws |-> FALSE], PatKorean>>

TwoPatterns == <<PatClass, PatKorean>>

\* the dict built by "if normalized not in dates: dates[normalized] = original"
RECURSIVE FirstLiterals(_, _)
FirstLiterals(ms, acc) ==
    IF ms = <<>> THEN acc
    ELSE LET k == MatchKey(Head(ms))
         IN  FirstLiterals(Tail(ms),
                 IF k \in DOMAIN acc THEN acc ELSE acc @@ (k :> Head(ms).group0))

EmptyDict == [k \in {} |-> <<>>]

\* mutant of extract_dates_comprehensive: the matches are taken last to first
extract_dates_comprehensive_LastWins(t) ==
    LET ms == AllMatches(t, FourPatterns)
    IN  FirstLiterals([j \in 1..Len(ms) |-> ms[Len(ms) + 1 - j]], EmptyDict)

\* analyze-all-error-cases.py extract_dates_comprehensive
extract_dates_comprehensive(t) == FirstLiterals(AllMatches(t, FourPatterns), EmptyDict)

\* validate-dates-28.py extract_dates
MatchKeys(ms) == {MatchKey(ms[j]) : j \in DOMAIN ms}

extract_dates(t) == MatchKeys(AllMatches(t, TwoPatterns))


(***************************************************************************)
(* Numbers in strings                                                      *)
(***************************************************************************)
\* value of a string of digits
RECURSIVE DigitsVal(_)
DigitsVal(s) ==
    IF s = <<>> THEN 0
    ELSE DigitsVal(SubSeq(s, 1, Len(s) - 1)) * 10 + DigitVal(s[Len(s)])

AllDigits(s) == \A j \in DOMAIN s : IsDigit(s[j])

\* str.strip() of whitespace
RECURSIVE Strip(_)
Strip(s) ==
    IF s # <<>> /\ IsSpace(s[1]) THEN Strip(Tail(s))
    ELSE IF s # <<>> /\ IsSpace(s[Len(s)]) THEN Strip(SubSeq(s, 1, Len(s) - 1))
    ELSE s

\* int(s): surrounding whitespace and one sign are accepted; ok is FALSE where
\* int raises ValueError.  (An inner "-" never reaches int: split('-') took it.)
ParseInt(s) ==
    LET u == Strip(s)
        neg == u # <<>> /\ u[1] = "-"
        v == IF u # <<>> /\ u[1] \in {"+", "-"} THEN Tail(u) ELSE u
    IN  IF v # <<>> /\ AllDigits(v)
        THEN [ok |-> TRUE, val |-> IF neg THEN 0 - DigitsVal(v) ELSE DigitsVal(v)]
        ELSE [ok |-> FALSE, val |-> 0]

\* s.split(sep): the pieces between the occurrences of the character sep
RECURSIVE SplitFrom(_, _, _)
SplitFrom(s, sep, cur) ==
    IF s = <<>> THEN <<cur>>
    ELSE IF Head(s) = sep THEN <<cur>> \o SplitFrom(Tail(s), sep, <<>>)
    ELSE SplitFrom(Tail(s), sep, Append(cur, Head(s)))

Split(s, sep) == SplitFrom(s, sep, <<>>)

\* year, month, day = map(int, date_str.split('-')); ok is FALSE where the
\* unpacking or an int raises
ParseParts(parts) ==
        IF Len(parts) = 3 /\ \A j \in 1..3 : ParseInt(parts[j]).ok
        THEN [ok |-> TRUE, year |-> ParseInt(parts[1]).val,
              month |-> ParseInt(parts[2]).val, day |-> ParseInt(parts[3]).val]
        ELSE [ok |-> FALSE, year |-> 0, month |-> 0, day |-> 0]

ParseYmd(s) == ParseParts(Split(s, "-"))

(***************************************************************************)
(* Date validators                                                         *)
(***************************************************************************)
YearFloor == 1950
YearCeiling == 2100

\* mutant of is_leap: every fourth year is a leap year
is_leap_EveryFourth(year) == year % 4 = 0

\* multi-model-comparison.py: (year % 4 == 0 and year % 100 != 0) or (year % 400 == 0)
is_leap(year) == (year % 4 = 0 /\ year % 100 # 0) \/ (year % 400 = 0)

\* multi-model-comparison.py: days_in_month = [31, 28, 31, ...]
days_in_month == <<31, 28, 31, 30, 31, 30, 31, 31, 30, 31, 30, 31>>

\* validate-dates-28.py: days_in_month = [31, 29, 31, ...]
days_in_month_29 == <<31, 29, 31, 30, 31, 30, 31, 31, 30, 31, 30, 31>>

\* multi-model-comparison.py is_valid_date, after the parse
IsValidYmd(p) ==
        IF ~p.ok THEN FALSE
        ELSE IF p.year < YearFloor \/ p.year > YearCeiling THEN FALSE
        ELSE IF p.month < 1 \/ p.month > 12 THEN FALSE
        ELSE IF p.day < 1 \/ p.day > 31 THEN FALSE
        ELSE IF p.month = 2 /\ is_leap(p.year) THEN p.day <= 29
        ELSE p.day <= days_in_month[p.month]

is_valid_date(s) == IsValidYmd(ParseYmd(s))

\* validate-dates-28.py is_impossible_date, after the parse
IsImpossibleYmd(p) ==
        IF ~p.ok THEN TRUE
        ELSE IF p.month < 1 \/ p.month > 12 THEN TRUE
        ELSE IF p.day < 1 \/ p.day > days_in_month_29[p.month] THEN TRUE
        ELSE IF p.month = 2 /\ p.day = 29
                /\ ~(p.year % 4 = 0 /\ (p.year % 100 # 0 \/ p.year % 400 = 0))
             THEN TRUE
        ELSE FALSE

is_impossible_date(s) == IsImpossibleYmd(ParseYmd(s))

\* date(year, month, day).toordinal(): days since 0001-01-01, that day being 1
Ordinal(year, month, day) ==
    LET y == year - 1
        before == [m \in 1..12 |->
                    CASE m = 1 -> 0 [] m = 2 -> 31 [] m = 3 -> 59 [] m = 4 -> 90
                      [] m = 5 -> 120 [] m = 6 -> 151 [] m = 7 -> 181 [] m = 8 -> 212
                      [] m = 9 -> 243 [] m = 10 -> 273 [] m = 11 -> 304 [] m = 12 -> 334]
    IN  y * 365 + (y \div 4) - (y \div 100) + (y \div 400) + before[month]
          + (IF month > 2 /\ is_leap(year) THEN 1 ELSE 0) + day

\* datetime.strptime(date_str, "%Y-%m-%d"): %Y is four digits, %m and %d one
\* or two; a field out of the calendar's range raises ValueError (ok FALSE)
StrptimeParts(parts) ==
    LET fields == Len(parts) = 3 /\ \A j \in 1..3 : parts[j] # <<>> /\ AllDigits(parts[j])
        y == DigitsVal(parts[1])
        m == DigitsVal(parts[2])
        d == DigitsVal(parts[3])
    IN  IF /\ fields
           /\ Len(parts[1]) = 4 /\ Len(parts[2]) <= 2 /\ Len(parts[3]) <= 2
           /\ y >= 1 /\ m >= 1 /\ m <= 12 /\ d >= 1
           /\ d <= (IF m = 2 /\ is_leap(y) THEN 29 ELSE days_in_month[m])
        THEN [ok |-> TRUE, ordinal |-> Ordinal(y, m, d)]
        ELSE [ok |-> FALSE, ordinal |-> 0]

Strptime(s) == StrptimeParts(Split(s, "-"))

ToleranceDays == 30

\* validate-dates-28.py is_future_date at evaluation day today: a midnight
\* date exceeds now + 30 days exactly when its day number exceeds today's + 30
IsFutureParsed(p, today) == p.ok /\ p.ordinal > today + ToleranceDays

is_future_date(s, today) == IsFutureParsed(Strptime(s), today)


(***************************************************************************)
(* Validating extractors                                                   *)
(***************************************************************************)
\* validate-ocr-quality-28.py extract_dates_from_text: the two-pattern
\* extractor keeping 1950 <= y <= 2100, 1 <= m <= 12, 1 <= d <= 31
KeptKeysOcr(ms) ==
    LET keep(m) == LET y == DigitsVal(m.year)
                       mo == DigitsVal(m.month)
                       d == DigitsVal(m.day)
                   IN  YearFloor <= y /\ y <= YearCeiling /\ 1 <= mo /\ mo <= 12
                         /\ 1 <= d /\ d <= 31
    IN  {MatchKey(ms[j]) : j \in {i \in DOMAIN ms : keep(ms[i])}}

extract_dates_from_text_ocr(t) == KeptKeysOcr(AllMatches(t, TwoPatterns))

\* multi-model-comparison.py extract_dates_from_text: the four-pattern
\* extractor keeping the keys is_valid_date accepts
extract_dates_from_text_multi(t) == {k \in MatchKeys(AllMatches(t, FourPatterns)) : is_valid_date(k)}

(***************************************************************************)
(* Percentages and grades                                                  *)
(***************************************************************************)
\* count / total * 100
Pct(count, total) == [num |-> count * 100, den |-> total]
Pct100 == [num |-> 100, den |-> 1]
Pct0 == [num |-> 0, den |-> 1]

PctGE(a, n) == a.num >= n * a.den
PctEq(a, b) == a.num * b.den = b.num * a.den

\* the grade strings (U+C0C1 high, U+C911 medium, U+D558 low)
GradeHigh == "sang"
GradeMedium == "jung"
GradeLow == "ha"

\* mutant of classify_grade: the tiers exclude their lower bounds
classify_grade_Exclusive(acc) ==
    IF acc.num > 80 * acc.den THEN GradeHigh
    ELSE IF acc.num > 60 * acc.den THEN GradeMedium
    ELSE GradeLow

\* validate-dates-28.py classify_grade
classify_grade(acc) ==
    IF PctGE(acc, 80) THEN GradeHigh
    ELSE IF PctGE(acc, 60) THEN GradeMedium
    ELSE GradeLow

(***************************************************************************)
(* sorted(): canonical keys in code-point order                            *)
(***************************************************************************)
CodePoint(c) ==
    CASE c \in Digits -> 48 + DigitVal(c)
      [] c = "-" -> 45 [] c = "." -> 46 [] c = "/" -> 47 [] c = "+" -> 43
      [] c = " " -> 32 [] c = "\n" -> 10 [] c = "\t" -> 9
      [] OTHER -> 1000

RECURSIVE StrLess(_, _)
StrLess(a, b) ==
    IF b = <<>> THEN FALSE
    ELSE IF a = <<>> THEN TRUE
    ELSE IF Head(a) = Head(b) THEN StrLess(Tail(a), Tail(b))
    ELSE CodePoint(Head(a)) < CodePoint(Head(b))

RECURSIVE Sorted(_)
Sorted(S) ==
    IF S = {} THEN <<>>
    ELSE LET least == CHOOSE x \in S : \A y \in S \ {x} : StrLess(x, y)
         IN  <<least>> \o Sorted(S \ {least})

\* seq[:n]
Prefix(seq, n) == SubSeq(seq, 1, IF Len(seq) < n THEN Len(seq) ELSE n)

(***************************************************************************)
(* Comparators                                                             *)
(***************************************************************************)
\* validate-dates-28.py validate_case, from the two files' texts (an absent
\* file reads as the empty text).  matched, missing and extra are its locals;
\* the two list comprehensions over the set `missing` are kept as sets.
\* mutant of matched_of: the intersection is forgotten
matched_of_NoIntersection(baseline_dates, generated_dates) == baseline_dates

\* matched = baseline_dates & generated_dates
matched_of(baseline_dates, generated_dates) == baseline_dates \cap generated_dates

\* mutant of missing_of: the operands are exchanged
missing_of_Exchanged(baseline_dates, generated_dates) == generated_dates \ baseline_dates

\* missing = baseline_dates - generated_dates
missing_of(baseline_dates, generated_dates) == baseline_dates \ generated_dates

\* extra = generated_dates - baseline_dates
extra_of(baseline_dates, generated_dates) == generated_dates \ baseline_dates

\* mutant of accuracy_of: an empty baseline scores 0
accuracy_of_ZeroOnEmpty(matched_count, baseline_count) ==
    IF baseline_count > 0 THEN Pct(matched_count, baseline_count) ELSE Pct0

\* accuracy = (matched_count / baseline_count * 100) if baseline_count > 0 else 100.0
accuracy_of(matched_count, baseline_count) ==
    IF baseline_count > 0 THEN Pct(matched_count, baseline_count) ELSE Pct100

CompareDates(baseline_dates, generated_dates, today) ==
    LET matched == matched_of(baseline_dates, generated_dates)
        missing == missing_of(baseline_dates, generated_dates)
        extra == extra_of(baseline_dates, generated_dates)
        baseline_count == Cardinality(baseline_dates)
        acc == accuracy_of(Cardinality(matched), baseline_count)
    IN  [baseline_date_count |-> baseline_count,
         generated_date_count |-> Cardinality(generated_dates),
         matched_count |-> Cardinality(matched),
         missing_count |-> Cardinality(missing),
         extra_count |-> Cardinality(extra),
         accuracy |-> acc,
         grade |-> classify_grade(acc),
         missing_dates |-> Prefix(Sorted(missing), 10),
         extra_dates |-> Prefix(Sorted(extra), 10),
         matched_sample |-> Prefix(Sorted(matched), 5),
         impossible_dates |-> {d \in missing : is_impossible_date(d)},
         future_dates |-> {d \in missing : is_future_date(d, today) /\ ~is_impossible_date(d)},
         matched |-> matched,
         missing |-> missing,
         extra |-> extra]

validate_case(b_text, g_text, today) ==
    CompareDates(extract_dates(b_text), extract_dates(g_text), today)

\* validate-ocr-quality-28.py validate_case, from the OCR file's text and the
\* GT file's text
\* coverage = (len(matched) / len(gt_dates) * 100) if len(gt_dates) > 0 else 100.0
coverage_of(matched_count, gt_count) ==
    IF gt_count > 0 THEN Pct(matched_count, gt_count) ELSE Pct100

\* mutant of precision_of: the empty case is copied from coverage
precision_of_HundredOnEmpty(matched_count, ocr_count) ==
    IF ocr_count > 0 THEN Pct(matched_count, ocr_count) ELSE Pct100

\* precision = (len(matched) / len(ocr_dates) * 100) if len(ocr_dates) > 0 else 0.0
precision_of(matched_count, ocr_count) ==
    IF ocr_count > 0 THEN Pct(matched_count, ocr_count) ELSE Pct0

CompareOcr(ocr_dates, gt_dates) ==
    LET matched == ocr_dates \cap gt_dates
        missing == gt_dates \ ocr_dates
        extra == ocr_dates \ gt_dates
    IN  [ocr_dates |-> ocr_dates,
         gt_dates |-> gt_dates,
         matched |-> matched,
         missing |-> missing,
         extra |-> extra,
         coverage |-> coverage_of(Cardinality(matched), Cardinality(gt_dates)),
         precision |-> precision_of(Cardinality(matched), Cardinality(ocr_dates))]

validate_case_ocr(ocr_text, gt_text) ==
    CompareOcr(extract_dates_from_text_ocr(ocr_text), extract_dates_from_text_ocr(gt_text))

\* validate-dates.py extract_dates is the two-pattern extractor again
\* validate-dates.py analyze_case with both files present
CompareCoverage(baseline_dates, generated_dates) ==
    LET missing_dates == baseline_dates \ generated_dates
        extra_dates == generated_dates \ baseline_dates
        matched_dates == baseline_dates \cap generated_dates
        coverage == IF Cardinality(baseline_dates) = 0
                    THEN (IF Cardinality(generated_dates) = 0 THEN Pct100 ELSE Pct0)
                    ELSE Pct(Cardinality(matched_dates), Cardinality(baseline_dates))
    IN  [baseline_dates_count |-> Cardinality(baseline_dates),
         generated_dates_count |-> Cardinality(generated_dates),
         matched_count |-> Cardinality(matched_dates),
         missing_count |-> Cardinality(missing_dates),
         extra_count |-> Cardinality(extra_dates),
         coverage_percent |-> coverage,
         baseline_dates |-> Sorted(baseline_dates),
         generated_dates |-> Sorted(generated_dates),
         missing_dates |-> Sorted(missing_dates),
         extra_dates |-> Sorted(extra_dates),
         matched_dates |-> Sorted(matched_dates)]

analyze_case(b_text, g_text) == CompareCoverage(extract_dates(b_text), extract_dates(g_text))

\* multi-model-comparison.py calc_result inside validate_case_multi_model
calc_result(baseline_dates, ocr_dates_regex, llm) ==
    LET total_dates == ocr_dates_regex \cup llm
        matched == baseline_dates \cap total_dates
        acc == IF baseline_dates # {} THEN Pct(Cardinality(matched), Cardinality(baseline_dates))
               ELSE Pct100
    IN  [accuracy |-> acc,
         grade |-> classify_grade(acc),
         matched |-> Cardinality(matched),
         total |-> Cardinality(total_dates),
         llm_added |-> Cardinality(llm)]

\* multi-model-comparison.py validate_case_multi_model: the dict it returns
MultiModelResult(baseline_dates, ocr_dates_regex, llm) ==
    [baseline_dates |-> Cardinality(baseline_dates),
     ocr_regex |-> Cardinality(ocr_dates_regex),
     regex_only |-> calc_result(baseline_dates, ocr_dates_regex, {}),
     gpt |-> calc_result(baseline_dates, ocr_dates_regex, llm.gpt),
     gemini |-> calc_result(baseline_dates, ocr_dates_regex, llm.gemini),
     claude |-> calc_result(baseline_dates, ocr_dates_regex, llm.claude)]

validate_case_multi_model(b_text, ocr_text, llm) ==
    MultiModelResult(extract_dates_from_text_multi(b_text),
                     extract_dates_from_text_multi(ocr_text), llm)

(***************************************************************************)
(* Normalisers                                                             *)
(***************************************************************************)
\* re.match(r'^...$', s): the pattern matched at the start of s and ending at
\* its end, or just before a final newline
FullMatch(s, pat) ==
    LET m == MatchAt(s, 1, pat)
    IN  IF m.ok /\ (m.stop = Len(s) + 1 \/ (m.stop = Len(s) /\ s[Len(s)] = "\n"))
        THEN m ELSE NoMatch

PatNormalize == [sep1 |-> {"-", ".", "/", " "}, sep2 |-> {"-", ".", "/", " "},
                 sep3 |-> {}, ws |-> FALSE]

\* multi-model-comparison.py normalize_date
normalize_date(s) ==
    LET m == FullMatch(s, PatNormalize)
    IN  IF m.ok THEN MatchKey(m) ELSE s

\* mutant of normalize_date_format: day and month are written in the wrong order
normalize_date_format_DayFirst(s) ==
    LET m1 == FullMatch(s, PatHyphen)
        m2 == FullMatch(s, PatDot)
        m3 == FullMatch(s, PatSlash)
    IN  IF m1.ok THEN Normalized(m1.year, m1.day, m1.month)
        ELSE IF m2.ok THEN Normalized(m2.year, m2.day, m2.month)
        ELSE IF m3.ok THEN Normalized(m3.year, m3.day, m3.month)
        ELSE s

\* validate-28-with-llm.py normalize_date_format
normalize_date_format(s) ==
    LET m1 == FullMatch(s, PatHyphen)
        m2 == FullMatch(s, PatDot)
        m3 == FullMatch(s, PatSlash)
    IN  IF m1.ok THEN MatchKey(m1)
        ELSE IF m2.ok THEN MatchKey(m2)
        ELSE IF m3.ok THEN MatchKey(m3)
        ELSE s


(***************************************************************************)
(* Input texts                                                             *)
(***************************************************************************)
\* decimal digits of n >= 0
RECURSIVE Dec(_)
Dec(n) == IF n < 10 THEN <<DigitChar(n)>> ELSE Dec(n \div 10) \o <<DigitChar(n % 10)>>

Dec2(n) == IF n < 10 THEN <<"0", DigitChar(n)>> ELSE Dec(n)
Dec4(n) == <<DigitChar((n \div 1000) % 10), DigitChar((n \div 100) % 10),
             DigitChar((n \div 10) % 10), DigitChar(n % 10)>>

\* the canonical key of year y, month m, day d
Canon(y, m, d) == Dec4(y) \o <<"-">> \o Dec2(m) \o <<"-">> \o Dec2(d)

Styles == <<"hyphen", "dot", "slash", "korean", "korean_tight", "korean_wide">>

\* one literal rendering of a date; padM / padD write a leading zero
Render(style, y, m, d, padM, padD) ==
    LET ys == Dec4(y)
        ms == IF padM THEN Dec2(m) ELSE Dec(m)
        ds == IF padD THEN Dec2(d) ELSE Dec(d)
    IN  CASE style = "hyphen" -> ys \o <<"-">> \o ms \o <<"-">> \o ds
          [] style = "dot" -> ys \o <<".">> \o ms \o <<".">> \o ds
          [] style = "slash" -> ys \o <<"/">> \o ms \o <<"/">> \o ds
          [] style = "korean" -> ys \o <<"NYEON", " ">> \o ms \o <<"WOL", " ">> \o ds \o <<"IL">>
          [] style = "korean_tight" -> ys \o <<"NYEON">> \o ms \o <<"WOL">> \o ds \o <<"IL">>
          [] style = "korean_wide" ->
                ys \o <<" ", "NYEON", " ">> \o ms \o <<" ", "WOL", " ">> \o ds \o <<" ", "IL">>

\* the dates a case's files speak of
DateOf(i) ==
    CASE i = 1 -> [year |-> 2024, month |-> 5, day |-> 1]
      [] i = 2 -> [year |-> 2024, month |-> 11, day |-> 10]
      [] i = 3 -> [year |-> 2054, month |-> 11, day |-> 10]
      [] i = 4 -> [year |-> 2023, month |-> 2, day |-> 30]
      [] i = 5 -> [year |-> 1949, month |-> 12, day |-> 31]
      [] OTHER -> [year |-> 2000 + i, month |-> 1 + (i % 12), day |-> 1 + (i % 28)]

DateKey(i) == Canon(DateOf(i).year, DateOf(i).month, DateOf(i).day)

\* a file's text: the dates of S in index order, date i in a style and padding
\* that the scheme picks, each after a label and followed by a comma
RECURSIVE RenderFrom(_, _, _, _)
RenderFrom(S, i, last, scheme) ==
    IF i > last THEN <<>>
    ELSE (IF i \in S
          THEN <<"x", ":", " ">>
                 \o Render(Styles[1 + ((i + scheme) % Len(Styles))],
                           DateOf(i).year, DateOf(i).month, DateOf(i).day,
                           (i + scheme) % 2 = 0, (i + scheme) % 3 = 0)
                 \o <<",", " ">>
          ELSE <<>>) \o RenderFrom(S, i + 1, last, scheme)

\* the reference and candidate texts of the end-to-end example
ExampleRef ==
    <<"GYE", "YAK", "IL", ":", " ", "2", "0", "2", "4", ".", "0", "5", ".", "0", "1", ",", " ",
      "SA", "GO", "BAL", "SAENG", "IL", ":", " ", "2", "0", "2", "4", "-", "1", "1", "-", "1", "0">>
ExampleCand ==
    <<"c", "o", "n", "t", "r", "a", "c", "t", " ", "2", "0", "2", "4", "-", "0", "5", "-", "0", "1", " ",
      "a", "c", "c", "i", "d", "e", "n", "t", " ", "d", "a", "t", "e", " ",
      "2", "0", "5", "4", "-", "1", "1", "-", "1", "0">>


(***************************************************************************)
(* Bounds of the inputs                                                    *)
(***************************************************************************)
\* months and days 0..MaxField are rendered for the extractors
MaxField == 13
\* the dates 1..NumDates may occur in a case's files
NumDates == 4
\* the schemes a file's styles are picked by
Schemes == {0, 1}
\* fields 0..MaxMonthField and 0..MaxDayField are given to the validators
MaxMonthField == 13
MaxDayField == 32
\* days 0..MaxNormDay are given to the normalisers
MaxNormDay == 11
\* accuracies are the multiples of 1 / GradeScale percent
GradeScale == 1000

ExtractYears == {0, 1999, 2024, 9999}

\* evaluation days: the repository's date 2025-12-30, and 2054-10-11, which
\* is thirty days before DateOf(3)
Todays == {Ordinal(2025, 12, 30), Ordinal(2054, 10, 11)}

\* what the three model calls of multi-model-comparison may add
LlmChoices ==
    {[gpt |-> {}, gemini |-> {}, claude |-> {}],
     [gpt |-> {DateKey(1)}, gemini |-> {}, claude |-> {}],
     [gpt |-> {DateKey(1)}, gemini |-> {DateKey(2)}, claude |-> {DateKey(1), DateKey(2)}]}

NormSeps == {"-", ".", "/", " ", "x"}
NormInputs ==
    {pre \o Dec4(2024) \o <<s1>> \o mo \o <<s2>> \o da \o post :
        pre \in {<<>>, <<"1">>}, s1 \in NormSeps, s2 \in NormSeps,
        mo \in {Dec(5), Dec2(5), Dec(12)},
        da \in {Dec(d) : d \in 0..MaxNormDay} \cup {Dec2(d) : d \in 0..MaxNormDay},
        post \in {<<>>, <<"\n">>, <<"1">>}}

(***************************************************************************)
(* The extractors on one rendered date                                     *)
(***************************************************************************)
InitExtract ==
    /\ script = "extractors"
    /\ \E y \in ExtractYears, m \in 0..MaxField, d \in 0..MaxField,
          st \in DOMAIN Styles, padM \in BOOLEAN, padD \in BOOLEAN :
            /\ given = [year |-> y, month |-> m, day |-> d, style |-> Styles[st]]
            /\ text = Render(Styles[st], y, m, d, padM, padD)
    /\ now = 0
    /\ dates = Nothing /\ dates_set = Nothing
    /\ baseline_text = <<>> /\ generated_text = <<>>
    /\ llm_dates = Nothing /\ result = Nothing /\ swapped = Nothing
    /\ date_str = <<>> /\ valid = Nothing /\ impossible = Nothing /\ normalized = Nothing
    /\ accuracy = Pct0 /\ grade = Nothing
    /\ ClassifierIdle /\ MaturityIdle /\ ValidatedIdle /\ AuditIdle

ExtractDatesComprehensive ==
    /\ script = "extractors" /\ dates = Nothing
    /\ dates' = Some(extract_dates_comprehensive(text))
    /\ UNCHANGED <<script, given, now, text, dates_set, caseVars, dateVars, gradeVars, classifyVars, maturityVars, validatedVars, auditVars>>

ExtractDates ==
    /\ script = "extractors" /\ dates_set = Nothing
    /\ dates_set' = Some(extract_dates(text))
    /\ UNCHANGED <<script, given, now, text, dates, caseVars, dateVars, gradeVars, classifyVars, maturityVars, validatedVars, auditVars>>

NextExtract == ExtractDatesComprehensive \/ ExtractDates

SpecExtract == InitExtract /\ [][NextExtract]_vars

(***************************************************************************)
(* One case through each comparator                                        *)
(***************************************************************************)
CaseScripts == {"validate-dates-28", "validate-ocr-quality-28", "validate-dates",
                "multi-model-comparison"}

\* a file's text with the keys written in it
CaseFiles ==
    {[text |-> RenderFrom(S, 1, NumDates, k), keys |-> {DateKey(i) : i \in S}] :
        S \in SUBSET (1..NumDates), k \in Schemes}

Init ==
    /\ script \in CaseScripts
    /\ \E b \in CaseFiles \cup {[text |-> ExampleRef, keys |-> {DateKey(1), DateKey(2)}]},
          g \in CaseFiles \cup {[text |-> ExampleCand, keys |-> {DateKey(1), DateKey(3)}]} :
            /\ baseline_text = b.text
            /\ generated_text = g.text
            /\ given = [ref |-> b.keys, cand |-> g.keys]
    /\ now \in (IF script = "validate-dates-28" THEN Todays ELSE {0})
    /\ llm_dates = Nothing /\ result = Nothing /\ swapped = Nothing
    /\ text = <<>> /\ dates = Nothing /\ dates_set = Nothing
    /\ date_str = <<>> /\ valid = Nothing /\ impossible = Nothing /\ normalized = Nothing
    /\ accuracy = Pct0 /\ grade = Nothing
    /\ ClassifierIdle /\ MaturityIdle /\ ValidatedIdle /\ AuditIdle

caseFrame == <<script, given, now, extractVars, baseline_text, generated_text, dateVars, gradeVars, classifyVars, maturityVars, validatedVars, auditVars>>

\* validate-dates-28.py validate_case
ValidateCase ==
    /\ script = "validate-dates-28" /\ result = Nothing
    /\ result' = Some(validate_case(baseline_text, generated_text, now))
    /\ UNCHANGED <<caseFrame, llm_dates, swapped>>

\* validate-ocr-quality-28.py validate_case
ValidateCaseOcr ==
    /\ script = "validate-ocr-quality-28" /\ result = Nothing
    /\ result' = Some(validate_case_ocr(generated_text, baseline_text))
    /\ UNCHANGED <<caseFrame, llm_dates, swapped>>

\* validate-dates.py analyze_case
AnalyzeCase ==
    /\ script = "validate-dates" /\ result = Nothing
    /\ result' = Some(analyze_case(baseline_text, generated_text))
    /\ UNCHANGED <<caseFrame, llm_dates, swapped>>

\* multi-model-comparison.py validate_case_multi_model, both files present:
\* the gathered model calls have returned llm (the empty set for a failed call)
ValidateCaseMultiModel ==
    /\ script = "multi-model-comparison" /\ result = Nothing
    /\ \E llm \in LlmChoices :
          /\ llm_dates' = Some(llm)
          /\ result' = Some(validate_case_multi_model(baseline_text, generated_text, llm))
    /\ UNCHANGED <<caseFrame, swapped>>

\* validate-dates-28.py validate_case with the two files exchanged
ValidateCaseSwapped ==
    /\ script = "validate-dates-28" /\ Got(result) /\ swapped = Nothing
    /\ swapped' = Some(validate_case(generated_text, baseline_text, now))
    /\ UNCHANGED <<caseFrame, llm_dates, result>>

\* validate-ocr-quality-28.py validate_case with the two files exchanged
ValidateCaseOcrSwapped ==
    /\ script = "validate-ocr-quality-28" /\ Got(result) /\ swapped = Nothing
    /\ swapped' = Some(validate_case_ocr(baseline_text, generated_text))
    /\ UNCHANGED <<caseFrame, llm_dates, result>>

Next ==
    \/ ValidateCase
    \/ ValidateCaseOcr
    \/ AnalyzeCase
    \/ ValidateCaseMultiModel
    \/ ValidateCaseSwapped
    \/ ValidateCaseOcrSwapped

Spec == Init /\ [][Next]_vars

(***************************************************************************)
(* The validators on one canonical date                                    *)
(***************************************************************************)
InitValidator ==
    /\ script = "validators"
    /\ \E y \in YearFloor..YearCeiling, m \in 0..MaxMonthField, d \in 0..MaxDayField :
            /\ given = [year |-> y, month |-> m, day |-> d]
            /\ date_str = Canon(y, m, d)
    /\ now = 0
    /\ valid = Nothing /\ impossible = Nothing /\ normalized = Nothing
    /\ text = <<>> /\ dates = Nothing /\ dates_set = Nothing
    /\ baseline_text = <<>> /\ generated_text = <<>>
    /\ llm_dates = Nothing /\ result = Nothing /\ swapped = Nothing
    /\ accuracy = Pct0 /\ grade = Nothing
    /\ ClassifierIdle /\ MaturityIdle /\ ValidatedIdle /\ AuditIdle

\* multi-model-comparison.py is_valid_date
IsValidDate ==
    /\ script = "validators" /\ valid = Nothing
    /\ valid' = Some(is_valid_date(date_str))
    /\ UNCHANGED <<script, given, now, extractVars, caseVars, date_str, impossible, normalized, gradeVars, classifyVars, maturityVars, validatedVars, auditVars>>

\* validate-dates-28.py is_impossible_date
IsImpossibleDate ==
    /\ script = "validators" /\ impossible = Nothing
    /\ impossible' = Some(is_impossible_date(date_str))
    /\ UNCHANGED <<script, given, now, extractVars, caseVars, date_str, valid, normalized, gradeVars, classifyVars, maturityVars, validatedVars, auditVars>>

NextValidator == IsValidDate \/ IsImpossibleDate

SpecValidator == InitValidator /\ [][NextValidator]_vars

(***************************************************************************)
(* The grade classifier on one accuracy                                    *)
(***************************************************************************)
InitGrade ==
    /\ script = "classify_grade"
    /\ accuracy \in {[num |-> n, den |-> GradeScale] : n \in 0..(100 * GradeScale)}
    /\ grade = Nothing
    /\ given = <<>> /\ now = 0
    /\ text = <<>> /\ dates = Nothing /\ dates_set = Nothing
    /\ baseline_text = <<>> /\ generated_text = <<>>
    /\ llm_dates = Nothing /\ result = Nothing /\ swapped = Nothing
    /\ date_str = <<>> /\ valid = Nothing /\ impossible = Nothing /\ normalized = Nothing
    /\ ClassifierIdle /\ MaturityIdle /\ ValidatedIdle /\ AuditIdle

\* validate-dates-28.py classify_grade
ClassifyGrade ==
    /\ script = "classify_grade" /\ grade = Nothing
    /\ grade' = Some(classify_grade(accuracy))
    /\ UNCHANGED <<script, given, now, extractVars, caseVars, dateVars, accuracy,
                   classifyVars, maturityVars, validatedVars, auditVars>>

NextGrade == ClassifyGrade

SpecGrade == InitGrade /\ [][NextGrade]_vars

(***************************************************************************)
(* The normalisers on one string                                           *)
(***************************************************************************)
NormScripts == {"normalize_date", "normalize_date_format", "extract_dates"}

InitNormalize ==
    /\ script \in NormScripts
    /\ date_str \in NormInputs
    /\ normalized = Nothing /\ dates_set = Nothing
    /\ given = <<>> /\ now = 0
    /\ text = <<>> /\ dates = Nothing
    /\ baseline_text = <<>> /\ generated_text = <<>>
    /\ llm_dates = Nothing /\ result = Nothing /\ swapped = Nothing
    /\ valid = Nothing /\ impossible = Nothing
    /\ accuracy = Pct0 /\ grade = Nothing
    /\ ClassifierIdle /\ MaturityIdle /\ ValidatedIdle /\ AuditIdle

normFrame == <<script, given, now, text, dates, caseVars, date_str, valid, impossible, gradeVars, classifyVars, maturityVars, validatedVars, auditVars>>

\* multi-model-comparison.py normalize_date, and the same on its result
NormalizeDate ==
    /\ script = "normalize_date" /\ normalized = Nothing
    /\ normalized' = Some([once |-> normalize_date(date_str),
                            twice |-> normalize_date(normalize_date(date_str))])
    /\ UNCHANGED <<normFrame, dates_set>>

\* validate-28-with-llm.py normalize_date_format, and the same on its result
NormalizeDateFormat ==
    /\ script = "normalize_date_format" /\ normalized = Nothing
    /\ normalized' = Some([once |-> normalize_date_format(date_str),
                            twice |-> normalize_date_format(normalize_date_format(date_str))])
    /\ UNCHANGED <<normFrame, dates_set>>

\* validate-dates-28.py extract_dates on the string
ExtractFromDateStr ==
    /\ script = "extract_dates" /\ dates_set = Nothing
    /\ dates_set' = Some(extract_dates(date_str))
    /\ UNCHANGED <<normFrame, normalized>>

NextNormalize == NormalizeDate \/ NormalizeDateFormat \/ ExtractFromDateStr

SpecNormalize == InitNormalize /\ [][NextNormalize]_vars

(***************************************************************************)
(* The extractors on one date-shaped token                                 *)
(***************************************************************************)
\* deep-ocr-error-analysis.py extract_dates_from_text
extract_dates_from_text_deep(t) == MatchKeys(AllMatches(t, TwoPatterns))

\* what stands right before the token's year digits, and the year digits
TokenBefore == {<<>>, <<"1">>, <<"x">>, <<" ">>}
TokenYears == {<<"2", "0", "2", "4">>, <<"0", "2", "4">>, <<"2", "4">>}
TokenFields == {1, 5, 12}

InitToken ==
    /\ script = "extractors"
    /\ \E pre \in TokenBefore, ys \in TokenYears, m \in TokenFields, d \in TokenFields,
          st \in DOMAIN Styles, padM \in BOOLEAN, padD \in BOOLEAN :
            LET r == Render(Styles[st], 2024, m, d, padM, padD)
            IN  /\ given = [before |-> pre, year_digits |-> ys, month |-> m, day |-> d,
                            style |-> Styles[st]]
                /\ text = pre \o ys \o SubSeq(r, 5, Len(r))
    /\ now = 0
    /\ dates = Nothing /\ dates_set = Nothing
    /\ baseline_text = <<>> /\ generated_text = <<>>
    /\ llm_dates = Nothing /\ result = Nothing /\ swapped = Nothing
    /\ date_str = <<>> /\ valid = Nothing /\ impossible = Nothing /\ normalized = Nothing
    /\ accuracy = Pct0 /\ grade = Nothing
    /\ ClassifierIdle /\ MaturityIdle /\ ValidatedIdle /\ AuditIdle

\* deep-ocr-error-analysis.py extract_dates_from_text on the token
ExtractDatesFromTextDeep ==
    /\ script = "extractors" /\ dates_set = Nothing
    /\ dates_set' = Some(extract_dates_from_text_deep(text))
    /\ UNCHANGED <<script, given, now, text, dates, caseVars, dateVars, gradeVars,
                   classifyVars, maturityVars, validatedVars, auditVars>>

NextToken == ExtractDatesComprehensive \/ ExtractDatesFromTextDeep

SpecToken == InitToken /\ [][NextToken]_vars


(***************************************************************************)
(* deep-ocr-error-analysis.py: blocks, and where a date stands in them     *)
(*                                                                         *)
(* Hangul syllables are written as romanised tokens, one per syllable      *)
(* ("JIN", "DAN" for the keyword of diagnosis).  A function's outcome is     *)
(* Return(v), or Raise(e) where the exception e leaves the function.       *)
(***************************************************************************)
Return(v) == [raised |-> "", value |-> <<v>>]
Raise(e) == [raised |-> e, value |-> <<>>]

\* Block(page, text, x, y, width, height)
Block(page, t, x, y, width, height) ==
    [page |-> page, text |-> t, x |-> x, y |-> y, width |-> width, height |-> height]

\* s in t: s is a substring of t (the empty string is in every string)
Contains(t, s) ==
    \/ s = <<>>
    \/ \E i \in 0..(Len(t) - Len(s)) : t[i + 1] = s[1] /\ SubSeq(t, i + 1, i + Len(s)) = s

\* the least element of a non-empty set of integers
Least(S) == CHOOSE i \in S : \A j \in S : i <= j

\* the literal renderings find_block_with_date builds from the three parts
DatePatterns(parts) ==
    LET year == parts[1]
        month == parts[2]
        day == parts[3]
    IN  {year \o <<"-">> \o month \o <<"-">> \o day,
         year \o <<".">> \o month \o <<".">> \o day,
         year \o <<"/">> \o month \o <<"/">> \o day,
         year \o <<"NYEON">> \o month \o <<"WOL">> \o day \o <<"IL">>,
         year \o <<"NYEON", " ">> \o month \o <<"WOL", " ">> \o day \o <<"IL">>,
         Dec(ParseInt(year).val) \o <<".">> \o Dec(ParseInt(month).val)
             \o <<".">> \o Dec(ParseInt(day).val)}

\* for i, block in enumerate(blocks): if <one of the strings> in block.text:
\* return i -- the index, counted from 0, of the first such block, or -1
FirstHit(blocks_, strings) ==
    LET hits == {i \in DOMAIN blocks_ : \E s \in strings : Contains(blocks_[i].text, s)}
    IN  IF hits = {} THEN -1 ELSE Least(hits) - 1

\* find_block_with_date, the index it returns: first the exact string, then
\* (after the split and the three int() calls, which may raise) the patterns
find_block_with_date(blocks_, date_str_) ==
    LET exact == FirstHit(blocks_, {date_str_})
        parts == Split(date_str_, "-")
    IN  IF exact # -1 THEN Return(exact)
        ELSE IF Len(parts) # 3 THEN Raise("ValueError")
        ELSE IF \E j \in 1..3 : ~ParseInt(parts[j]).ok THEN Raise("ValueError")
        ELSE Return(FirstHit(blocks_, DatePatterns(parts)))

\* get_surrounding_blocks(blocks, index, window): the indices, counted from 0
get_surrounding_blocks(blocks_, index, window) ==
    LET start == IF index - window > 0 THEN index - window ELSE 0
        end == IF Len(blocks_) < index + window + 1 THEN Len(blocks_) ELSE index + window + 1
    IN  [k \in 1..(end - start) |-> start + k - 1]

\* ' '.join(texts)
RECURSIVE Join(_)
Join(texts) ==
    IF texts = <<>> THEN <<>>
    ELSE IF Len(texts) = 1 THEN texts[1]
    ELSE texts[1] \o <<" ">> \o Join(Tail(texts))

\* the keywords of extract_medical_keywords, in the order of its list
Keywords ==
    << <<"JIN", "DAN">>, <<"GEOM", "SA">>, <<"SU", "SUL">>, <<"CHEO", "BANG">>,
       <<"TU", "YAK">>, <<"CHI", "RYO">>, <<"IP", "WON">>, <<"TOE", "WON">>,
       <<"OE", "RAE">>, <<"EUNG", "GEUP">>, <<"SU", "HYEOL">>, <<"JU", "SA">>,
       <<"CHWAL", "YEONG">>, <<"PAN", "DOK">>,
       <<"NAE", "GWA">>, <<"OE", "GWA">>, <<"JEONG", "HYEONG", "OE", "GWA">>,
       <<"SIN", "GYEONG", "OE", "GWA">>, <<"SAN", "BU", "IN", "GWA">>,
       <<"SO", "AH", "GWA">>, <<"EE", "BI", "IN", "HU", "GWA">>,
       <<"C", "T">>, <<"M", "R", "I">>, <<"X", "-", "r", "a", "y">>,
       <<"CHO", "EUM", "PA">>, <<"HYEOL", "AEK", "GEOM", "SA">>,
       <<"SO", "BYEON", "GEOM", "SA">>,
       <<"CHEO", "BANG", "JEON">>, <<"JIN", "RYO", "GI", "ROK">>,
       <<"SO", "GYEON", "SEO">>, <<"UI", "GYEON", "SEO">>, <<"JIN", "DAN", "SEO">>,
       <<"CHO", "JIN">>, <<"JAE", "JIN">>, <<"NAE", "WON">>, <<"BANG", "MUN">>,
       <<"GYEONG", "GWA">>, <<"CHU", "JEOK">> >>

\* extract_medical_keywords: the keywords found in the text, in list order
extract_medical_keywords(t) == SelectSeq(Keywords, LAMBDA k : Contains(t, k))


(***************************************************************************)
(* deep-ocr-error-analysis.py: the date sequence of a document             *)
(***************************************************************************)
\* the orders in which "for date in dates" may visit the set S: a Python set
\* of strings iterates in an order that the process's hash seed decides
Orders(S) ==
    {o \in [1..Cardinality(S) -> S] : \A i, j \in 1..Cardinality(S) : o[i] = o[j] => i = j}

\* one visiting order for the dates of each block
RECURSIVE IterOrders(_)
IterOrders(blocks_) ==
    IF blocks_ = <<>> THEN {<<>>}
    ELSE {<<o>> \o rest : o \in Orders(extract_dates_from_text_deep(blocks_[1].text)),
                          rest \in IterOrders(Tail(blocks_))}

\* all_dates before the sort: (i, date, block.page, block.y) for the dates of
\* block i, counted from 0, whose year is within 1900..2100
RECURSIVE AllDates(_, _, _)
AllDates(blocks_, iter, i) ==
    IF i > Len(blocks_) THEN <<>>
    ELSE LET keep(date) == LET year == ParseInt(Split(date, "-")[1]).val
                           IN  1900 <= year /\ year <= 2100
             entry(date) == [i |-> i - 1, date |-> date,
                             page |-> blocks_[i].page, y |-> blocks_[i].y]
             here == SelectSeq(iter[i], keep)
         IN  [k \in DOMAIN here |-> entry(here[k])] \o AllDates(blocks_, iter, i + 1)

\* all_dates.sort(key=lambda x: (x[2], x[3])): a stable sort by (page, y)
RECURSIVE SortByPageY(_)
SortByPageY(entries) ==
    IF entries = <<>> THEN <<>>
    ELSE LET before(a, b) == a.page < b.page \/ (a.page = b.page /\ a.y < b.y)
             init == SubSeq(entries, 1, Len(entries) - 1)
             last == entries[Len(entries)]
             sorted == SortByPageY(init)
             \* last goes after every entry that is not after it
             keepN == Cardinality({k \in DOMAIN sorted : ~before(last, sorted[k])})
         IN  SubSeq(sorted, 1, keepN) \o <<last>> \o SubSeq(sorted, keepN + 1, Len(sorted))

\* seq[-n:] and seq[:n]
LastN(seq, n) == SubSeq(seq, (IF Len(seq) > n THEN Len(seq) - n + 1 ELSE 1), Len(seq))
FirstN(seq, n) == SubSeq(seq, 1, (IF Len(seq) > n THEN n ELSE Len(seq)))

\* [(date, page) for _, date, page, _ in entries]
DatePages(entries) == [k \in DOMAIN entries |-> <<entries[k].date, entries[k].page>>]

\* analyze_date_sequence on the sorted all_dates, window = 10
SequenceOf(all_dates, target_date) ==
    LET at == {k \in DOMAIN all_dates : all_dates[k].date = target_date}
    IN  IF at = {}
        THEN [found_in_sequence |-> FALSE, total_dates |-> Len(all_dates),
              position |-> Nothing, before |-> <<>>, after |-> <<>>, target |-> Nothing]
        ELSE LET target_index == Least(at) - 1
                 start == IF target_index - 10 > 0 THEN target_index - 10 ELSE 0
                 end == IF Len(all_dates) < target_index + 10 + 1
                        THEN Len(all_dates) ELSE target_index + 10 + 1
                 before == SubSeq(all_dates, start + 1, target_index)
                 after == SubSeq(all_dates, target_index + 2, end)
             IN  [found_in_sequence |-> TRUE, total_dates |-> Len(all_dates),
                  position |-> Some(target_index),
                  before |-> DatePages(LastN(before, 5)),
                  after |-> DatePages(FirstN(after, 5)),
                  target |-> Some(<<target_date, all_dates[target_index + 1].page>>)]

\* analyze_date_sequence(blocks, target_date), the sets visited in the orders iter
analyze_date_sequence(blocks_, target_date, iter) ==
    SequenceOf(SortByPageY(AllDates(blocks_, iter, 1)), target_date)


(***************************************************************************)
(* deep-ocr-error-analysis.py: classify_error_type                         *)
(*                                                                         *)
(* error_type is "insik_oryu" (recognition error), "jalmot_insik"          *)
(* (recognised wrongly), "sutja_baeyeol_oin" (a run of numbers taken for a   *)
(* date) or "baseline_error".  The reasoning string is the sequence of its *)
(* sentences, each [say, args]: args are the values the f-string formats.  *)
(***************************************************************************)
RecognitionError == "insik_oryu"
Misrecognised == "jalmot_insik"
NumberRun == "sutja_baeyeol_oin"
BaselineError == "baseline_error"

Sentence(say, args) == [say |-> say, args |-> args]

\* the mutant of error_type_of: the day is not checked against 31
error_type_of_NoDayCheck(year, month, day, date_obj, today) ==
    IF month < 1 \/ month > 12 THEN RecognitionError
    ELSE IF year > 2026 \/ year < 1950 THEN RecognitionError
    ELSE IF date_obj.ok THEN Misrecognised
    ELSE NumberRun

\* the mutant of error_type_of: the year's ceiling is 2100
error_type_of_Ceiling2100(year, month, day, date_obj, today) ==
    IF month < 1 \/ month > 12 THEN RecognitionError
    ELSE IF day < 1 \/ day > 31 THEN RecognitionError
    ELSE IF year > 2100 \/ year < 1950 THEN RecognitionError
    ELSE IF date_obj.ok THEN Misrecognised
    ELSE NumberRun

\* the error_type the if / elif / else chain assigns; date_obj is the outcome
\* of datetime.strptime(error_date, "%Y-%m-%d"), which the chain reaches only
\* in its last branch and whose ValueError the bare except catches
error_type_of(year, month, day, date_obj, today) ==
    IF month < 1 \/ month > 12 THEN RecognitionError
    ELSE IF day < 1 \/ day > 31 THEN RecognitionError
    ELSE IF year > 2026 \/ year < 1950 THEN RecognitionError
    ELSE IF date_obj.ok
         THEN (IF date_obj.ordinal > today THEN Misrecognised ELSE Misrecognised)
    ELSE NumberRun

\* the mutant of reasoning_of: the keywords found are not looked at
reasoning_of_KeywordsIgnored(error_date_, year, month, day, date_obj, today, sequence, medical_keywords) ==
    IF month < 1 \/ month > 12 THEN <<Sentence("month_misread", <<Dec(month)>>)>>
    ELSE IF day < 1 \/ day > 31 THEN <<Sentence("day_misread", <<Dec(day)>>)>>
    ELSE IF year > 2026 \/ year < 1950
         THEN <<Sentence("year_misread", <<Dec(year)>>)>>
                \o (IF sequence.found_in_sequence
                    THEN <<Sentence("sequence", <<LastN(sequence.before, 2), error_date_,
                                                  FirstN(sequence.after, 2)>>)>>
                    ELSE <<>>)
    ELSE IF date_obj.ok
         THEN (IF date_obj.ordinal > today
               THEN <<Sentence("future_date", <<>>), Sentence("few_keywords_number_run", <<>>)>>
               ELSE <<Sentence("past_date_missing_from_baseline", <<>>)>>)
    ELSE <<Sentence("date_shaped_but_invalid", <<>>)>>

\* the reasoning the same chain builds
reasoning_of(error_date_, year, month, day, date_obj, today, sequence, medical_keywords) ==
    IF month < 1 \/ month > 12 THEN <<Sentence("month_misread", <<Dec(month)>>)>>
    ELSE IF day < 1 \/ day > 31 THEN <<Sentence("day_misread", <<Dec(day)>>)>>
    ELSE IF year > 2026 \/ year < 1950
         THEN <<Sentence("year_misread", <<Dec(year)>>)>>
                \o (IF sequence.found_in_sequence
                    THEN <<Sentence("sequence", <<LastN(sequence.before, 2), error_date_,
                                                  FirstN(sequence.after, 2)>>)>>
                    ELSE <<>>)
    ELSE IF date_obj.ok
         THEN (IF date_obj.ordinal > today
               THEN <<Sentence("future_date", <<>>)>>
                      \o (IF medical_keywords # <<>>
                          THEN <<Sentence("keywords_found", <<FirstN(medical_keywords, 5)>>),
                                 Sentence("maybe_planned_event", <<>>)>>
                          ELSE <<Sentence("few_keywords_number_run", <<>>)>>)
               ELSE <<Sentence("past_date_missing_from_baseline", <<>>)>>)
    ELSE <<Sentence("date_shaped_but_invalid", <<>>)>>

\* ErrorAnalysis(...): None is Nothing, the default spatial_context "" is <<>>
ErrorAnalysis(error_date_, error_type, found_in_blocks, block_index, surrounding_text, coordinates, spatial_context, medical_keywords, reasoning) ==
    [error_date |-> error_date_, error_type |-> error_type,
     found_in_blocks |-> found_in_blocks, block_index |-> block_index,
     surrounding_text |-> surrounding_text, coordinates |-> coordinates,
     spatial_context |-> spatial_context, medical_keywords |-> medical_keywords,
     reasoning |-> reasoning]

\* the record returned when block_idx == -1
NotFoundAnalysis(error_date_) ==
    ErrorAnalysis(error_date_, BaselineError, FALSE, -1, Nothing, Nothing, <<>>, Nothing,
                  <<Sentence("not_found_in_ocr_blocks", <<>>)>>)

\* the mutant of CallsOf: the helpers run before block_idx is looked at
CallsOf_Eager(found) ==
    <<"find_block_with_date", "get_surrounding_blocks", "find_spatially_close_blocks",
      "analyze_date_sequence", "extract_medical_keywords">>

\* the helpers classify_error_type calls, in order, when find_block_with_date
\* has returned: found is block_idx != -1
CallsOf(found) ==
    IF found
    THEN <<"find_block_with_date", "get_surrounding_blocks", "find_spatially_close_blocks",
           "analyze_date_sequence", "extract_medical_keywords">>
    ELSE <<"find_block_with_date">>

\* steps 6 and the return of classify_error_type: the three int() calls on
\* the parts of error_date (a part that is missing raises IndexError, one
\* that is no number ValueError), the chain, and the record
Judge(error_date_, block_idx_, found_block, surrounding_text, sequence, medical_keywords, parts, today) ==
    IF ~ParseInt(parts[1]).ok THEN Raise("ValueError")
    ELSE IF Len(parts) < 2 THEN Raise("IndexError")
    ELSE IF ~ParseInt(parts[2]).ok THEN Raise("ValueError")
    ELSE IF Len(parts) < 3 THEN Raise("IndexError")
    ELSE IF ~ParseInt(parts[3]).ok THEN Raise("ValueError")
    ELSE LET year == ParseInt(parts[1]).val
             month == ParseInt(parts[2]).val
             day == ParseInt(parts[3]).val
             date_obj == StrptimeParts(parts)
         IN  Return(ErrorAnalysis(
                 error_date_,
                 error_type_of(year, month, day, date_obj, today),
                 TRUE, block_idx_, Some(surrounding_text),
                 Some([page |-> found_block.page, x |-> found_block.x, y |-> found_block.y,
                       width |-> found_block.width, height |-> found_block.height]),
                 <<found_block.page, found_block.x, found_block.y>>,
                 Some(medical_keywords),
                 reasoning_of(error_date_, year, month, day, date_obj, today, sequence,
                              medical_keywords)))

\* classify_error_type once find_block_with_date has come back with fb
ClassifyAt(error_date_, blocks_, today, iter, fb) ==
    IF fb.raised # ""
    THEN [block_idx |-> fb, outcome |-> fb, calls |-> <<"find_block_with_date">>]
    ELSE IF Val(fb.value) = -1
    THEN [block_idx |-> fb, outcome |-> Return(NotFoundAnalysis(error_date_)),
          calls |-> CallsOf(FALSE)]
    ELSE LET block_idx_ == Val(fb.value)
             surrounding == get_surrounding_blocks(blocks_, block_idx_, 5)
             surrounding_text ==
                 [k \in DOMAIN surrounding |->
                     <<surrounding[k], FirstN(blocks_[surrounding[k] + 1].text, 100)>>]
             context_text ==
                 Join([k \in DOMAIN surrounding |-> blocks_[surrounding[k] + 1].text])
         IN  [block_idx |-> fb,
              outcome |-> Judge(error_date_, block_idx_, blocks_[block_idx_ + 1],
                                surrounding_text,
                                analyze_date_sequence(blocks_, error_date_, iter),
                                extract_medical_keywords(context_text),
                                Split(error_date_, "-"), today),
              calls |-> CallsOf(TRUE)]

\* classify_error_type(error_date, blocks, baseline_dates) run on the day
\* today, its sets visited in the orders iter; baseline_dates is not read
classify_error_type(error_date_, blocks_, baseline_dates, today, iter) ==
    ClassifyAt(error_date_, blocks_, today, iter, find_block_with_date(blocks_, error_date_))


(***************************************************************************)
(* One discrepant date through the classifier                              *)
(***************************************************************************)
\* the day the classifier runs
ClassifyToday == Ordinal(2025, 12, 30)

\* a document has at most MaxBlocks blocks
MaxBlocks == 2

\* dates the validators report, and strings that are no date
ErrorDates ==
    {Canon(2024, 5, 1), Canon(2025, 12, 30), Canon(2025, 12, 31),
     Canon(2023, 2, 29), Canon(2024, 4, 31), Canon(2023, 13, 1), Canon(2023, 5, 32),
     Canon(2054, 11, 10), Canon(2054, 2, 30), Canon(2150, 3, 5), Canon(1949, 12, 31),
     <<>>, <<"a", "b", "c">>, <<"2", "0", "2", "4", "-", "0", "5">>,
     <<"2", "0", "2", "4", "0", "5", "0", "1">>}

\* texts a block may hold when the date is d: keywords, another date, d as
\* it is, d run into the end of another date, d after another date, and (d
\* being three numbers) d with dots and d in the Korean form, unpadded; for
\* the extra date of the end-to-end example, the candidate text as well
BlockTexts(d) ==
    LET parts == Split(d, "-")
        numbers == Len(parts) = 3 /\ \A j \in 1..3 : ParseInt(parts[j]).ok
    IN  {<<"JIN", "DAN", " ", "C", "T">>,
         <<"a", " ">> \o Canon(2024, 1, 15),
         <<"x", " ">> \o d,
         <<"1", "9", "9", "9", "-", "1", "2", "-">> \o d,
         Canon(2023, 3, 3) \o <<" ">> \o d}
        \cup (IF numbers
              THEN {parts[1] \o <<".">> \o parts[2] \o <<".">> \o parts[3],
                    Dec(ParseInt(parts[1]).val) \o <<"NYEON", " ">>
                        \o Dec(ParseInt(parts[2]).val) \o <<"WOL", " ">>
                        \o Dec(ParseInt(parts[3]).val) \o <<"IL">>}
              ELSE {})
        \cup (IF d = DateKey(3) THEN {ExampleCand} ELSE {})

\* where a block may stand on the page
BlockPlaces == {[page |-> 1, y |-> 10], [page |-> 1, y |-> 20]}

BlocksFor(d) ==
    {Block(p.page, t, 0, p.y, 100, 20) : t \in BlockTexts(d), p \in BlockPlaces}

\* the block lists of at most n blocks
RECURSIVE BlockLists(_, _)
BlockLists(d, n) ==
    IF n = 0 THEN {<<>>}
    ELSE LET shorter == BlockLists(d, n - 1)
         IN  shorter \cup {Append(bs, b) : bs \in {s \in shorter : Len(s) = n - 1},
                                          b \in BlocksFor(d)}

InitClassify ==
    /\ script = "deep-ocr-error-analysis"
    /\ error_date \in ErrorDates
    /\ blocks \in BlockLists(error_date, MaxBlocks)
    /\ now = ClassifyToday
    /\ block_idx = Nothing /\ analysis = Nothing /\ calls = <<>>
    /\ given = <<>>
    /\ text = <<>> /\ dates = Nothing /\ dates_set = Nothing
    /\ baseline_text = <<>> /\ generated_text = <<>>
    /\ llm_dates = Nothing /\ result = Nothing /\ swapped = Nothing
    /\ date_str = <<>> /\ valid = Nothing /\ impossible = Nothing /\ normalized = Nothing
    /\ accuracy = Pct0 /\ grade = Nothing
    /\ MaturityIdle /\ ValidatedIdle /\ AuditIdle

classifyFrame == <<script, given, now, extractVars, caseVars, dateVars, gradeVars,
                   maturityVars, validatedVars, auditVars, blocks, error_date>>

\* what a call of classify_error_type that came back with r leaves behind
Classified(r) ==
    /\ block_idx' = Some(r.block_idx)
    /\ analysis' = Some(r.outcome)
    /\ calls' = r.calls

\* classify_error_type(error_date, blocks, baseline_dates): block_idx is what
\* its call of find_block_with_date(blocks, error_date) came back with
ClassifyErrorType ==
    /\ script = "deep-ocr-error-analysis" /\ analysis = Nothing
    /\ \E iter \in IterOrders(blocks) :
          Classified(classify_error_type(error_date, blocks, {}, now, iter))
    /\ UNCHANGED classifyFrame

NextClassify == ClassifyErrorType

SpecClassify == InitClassify /\ [][NextClassify]_vars


(***************************************************************************)
(* The validators that allow fifty years ahead                             *)
(***************************************************************************)
\* timedelta(days=365 * 50)
MaxFutureDays == 365 * 50

\* validate-28-with-llm.py is_valid_date after the parse, on the day today:
\* the midnight datetime(year, month, day) exceeds now + 365 * 50 days exactly
\* when its day number exceeds today's by more than 365 * 50
IsValidYmdLlm(p, today) ==
        IF ~p.ok THEN FALSE
        ELSE IF p.year < 1950 \/ p.year > 2100 THEN FALSE
        ELSE IF p.month < 1 \/ p.month > 12 THEN FALSE
        ELSE IF p.day < 1 \/ p.day > 31 THEN FALSE
        ELSE IF p.month = 2 /\ is_leap(p.year) THEN p.day <= 29
        ELSE IF p.day > days_in_month[p.month] THEN FALSE
        ELSE IF Ordinal(p.year, p.month, p.day) > today + MaxFutureDays THEN FALSE
        ELSE TRUE

is_valid_date_llm(s, today) == IsValidYmdLlm(ParseYmd(s), today)

\* quick-validate-enhanced.py is_valid_date_enhanced after the parse
IsValidYmdEnhanced(p, today) ==
        IF ~p.ok THEN FALSE
        ELSE IF p.year < 1950 \/ p.year > 2100 THEN FALSE
        ELSE IF p.month < 1 \/ p.month > 12 THEN FALSE
        ELSE IF p.day < 1 \/ p.day > 31 THEN FALSE
        ELSE IF p.month = 2 /\ is_leap(p.year) THEN p.day <= 29
        ELSE IF p.day > days_in_month[p.month] THEN FALSE
        ELSE IF Ordinal(p.year, p.month, p.day) > today + MaxFutureDays THEN FALSE
        ELSE TRUE

is_valid_date_enhanced(s, today) == IsValidYmdEnhanced(ParseYmd(s), today)

\* years around the floor, the evaluation days, fifty years after the first
\* of them, and the ceiling
MaturityYears == {1949, 1950, 2024, 2025, 2026, 2075, 2076, 2080, 2100, 2101}

InitMaturity ==
    /\ script = "maturity"
    /\ \E y \in MaturityYears, m \in 0..MaxMonthField, d \in 0..MaxDayField :
            /\ given = [year |-> y, month |-> m, day |-> d]
            /\ date_str = Canon(y, m, d)
    /\ now \in Todays
    /\ valid_llm = Nothing /\ valid_enhanced = Nothing
    /\ valid = Nothing /\ impossible = Nothing /\ normalized = Nothing
    /\ text = <<>> /\ dates = Nothing /\ dates_set = Nothing
    /\ baseline_text = <<>> /\ generated_text = <<>>
    /\ llm_dates = Nothing /\ result = Nothing /\ swapped = Nothing
    /\ accuracy = Pct0 /\ grade = Nothing
    /\ ClassifierIdle /\ ValidatedIdle /\ AuditIdle

maturityFrame == <<script, given, now, extractVars, caseVars, dateVars, gradeVars,
                   classifyVars, validatedVars, auditVars>>

\* validate-28-with-llm.py is_valid_date
IsValidDateLlm ==
    /\ script = "maturity" /\ valid_llm = Nothing
    /\ valid_llm' = Some(is_valid_date_llm(date_str, now))
    /\ UNCHANGED <<maturityFrame, valid_enhanced>>

\* quick-validate-enhanced.py is_valid_date_enhanced
IsValidDateEnhanced ==
    /\ script = "maturity" /\ valid_enhanced = Nothing
    /\ valid_enhanced' = Some(is_valid_date_enhanced(date_str, now))
    /\ UNCHANGED <<maturityFrame, valid_llm>>

NextMaturity == IsValidDateLlm \/ IsValidDateEnhanced

SpecMaturity == InitMaturity /\ [][NextMaturity]_vars


(***************************************************************************)
(* The validating extractors on one rendered date                          *)
(***************************************************************************)
ValidatedYears == {1949, 1950, 2023, 2024, 2100, 2101}

InitValidated ==
    /\ script = "validated"
    /\ \E y \in ValidatedYears, m \in 0..MaxMonthField, d \in 0..MaxDayField,
          st \in {"hyphen", "dot", "slash", "korean"} :
            /\ given = [year |-> y, month |-> m, day |-> d, style |-> st]
            /\ text = <<"x", " ">> \o Render(st, y, m, d, m % 2 = 0, d % 2 = 0) \o <<",">>
    /\ now = 0
    /\ ocr_validated = Nothing /\ multi_validated = Nothing
    /\ dates = Nothing /\ dates_set = Nothing
    /\ baseline_text = <<>> /\ generated_text = <<>>
    /\ llm_dates = Nothing /\ result = Nothing /\ swapped = Nothing
    /\ date_str = <<>> /\ valid = Nothing /\ impossible = Nothing /\ normalized = Nothing
    /\ accuracy = Pct0 /\ grade = Nothing
    /\ ClassifierIdle /\ MaturityIdle /\ AuditIdle

validatedFrame == <<script, given, now, extractVars, caseVars, dateVars, gradeVars,
                    classifyVars, maturityVars, auditVars>>

\* validate-ocr-quality-28.py extract_dates_from_text
ExtractDatesFromTextOcr ==
    /\ script = "validated" /\ ocr_validated = Nothing
    /\ ocr_validated' = Some(extract_dates_from_text_ocr(text))
    /\ UNCHANGED <<validatedFrame, multi_validated>>

\* multi-model-comparison.py extract_dates_from_text
ExtractDatesFromTextMulti ==
    /\ script = "validated" /\ multi_validated = Nothing
    /\ multi_validated' = Some(extract_dates_from_text_multi(text))
    /\ UNCHANGED <<validatedFrame, ocr_validated>>

NextValidated == ExtractDatesFromTextOcr \/ ExtractDatesFromTextMulti

SpecValidated == InitValidated /\ [][NextValidated]_vars


(***************************************************************************)
(* deep-ocr-error-analysis.py: the helpers of the classifier on a document *)
(***************************************************************************)
\* calculate_spatial_distance(b1, b2) between the centres x + width / 2,
\* y + height / 2: inf (Nothing) across pages.  The distance d is kept as
\* the whole number 4 * d * d, which orders as d does.
calculate_spatial_distance(b1, b2) ==
    IF b1.page # b2.page THEN Nothing
    ELSE LET dx == (2 * b1.x + b1.width) - (2 * b2.x + b2.width)
             dy == (2 * b1.y + b1.height) - (2 * b2.y + b2.height)
         IN  Some(dx * dx + dy * dy)

\* sorted(close_blocks, key=lambda x: x[2]): a stable sort by the distance
RECURSIVE SortByDistance(_)
SortByDistance(entries) ==
    IF entries = <<>> THEN <<>>
    ELSE LET init == SubSeq(entries, 1, Len(entries) - 1)
             last == entries[Len(entries)]
             sorted == SortByDistance(init)
             keepN == Cardinality({k \in DOMAIN sorted : sorted[k].distance <= last.distance})
         IN  SubSeq(sorted, 1, keepN) \o <<last>> \o SubSeq(sorted, keepN + 1, Len(sorted))

\* mutant of find_spatially_close_blocks: a block at max_distance is close
find_spatially_close_blocks_Inclusive(blocks_, target, max_distance) ==
    LET d(i) == calculate_spatial_distance(target, blocks_[i])
        close(i) == blocks_[i].page = target.page
                        /\ Val(d(i)) <= 4 * max_distance * max_distance
        kept == SelectSeq([i \in DOMAIN blocks_ |-> i], close)
    IN  SortByDistance([k \in DOMAIN kept |-> [i |-> kept[k] - 1, distance |-> Val(d(kept[k]))]])

\* find_spatially_close_blocks(blocks, target, max_distance): the entries
\* (i, distance), i counted from 0
find_spatially_close_blocks(blocks_, target, max_distance) ==
    LET d(i) == calculate_spatial_distance(target, blocks_[i])
        close(i) == blocks_[i].page = target.page
                        /\ Val(d(i)) < 4 * max_distance * max_distance
        kept == SelectSeq([i \in DOMAIN blocks_ |-> i], close)
    IN  SortByDistance([k \in DOMAIN kept |-> [i |-> kept[k] - 1, distance |-> Val(d(kept[k]))]])

\* a document has at most MaxSeqBlocks blocks
MaxSeqBlocks == 2

\* the date looked for
SeqTargets == {Canon(2024, 5, 1), Canon(2023, 13, 1)}

\* texts of a block: no date, a date, a date no calendar has, two dates of
\* which one has a month no calendar has
SeqTexts ==
    {<<"JIN", "DAN">>,
     <<"x", " ">> \o Canon(2024, 5, 1),
     <<"x", " ">> \o Canon(2023, 2, 30),
     Render("dot", 2024, 1, 15, FALSE, TRUE) \o <<" ">> \o Canon(2023, 13, 1)}

\* where a block stands: the centres of the places of page 1 are at the
\* distances 0, 40, 50, 50 and 60 from the centre of the first
SeqPlaces ==
    {[page |-> 1, x |-> 0, y |-> 0, width |-> 100, height |-> 20],
     [page |-> 1, x |-> 0, y |-> 40, width |-> 100, height |-> 20],
     [page |-> 1, x |-> 30, y |-> 40, width |-> 100, height |-> 20],
     [page |-> 1, x |-> 29, y |-> 35, width |-> 102, height |-> 30],
     [page |-> 1, x |-> 0, y |-> 60, width |-> 100, height |-> 20],
     [page |-> 2, x |-> 0, y |-> 0, width |-> 100, height |-> 20],
     [page |-> 2, x |-> 0, y |-> 10, width |-> 100, height |-> 20]}

SeqBlocks == {Block(p.page, t, p.x, p.y, p.width, p.height) : t \in SeqTexts, p \in SeqPlaces}

\* the block lists of at most n blocks
RECURSIVE SeqBlockLists(_)
SeqBlockLists(n) ==
    IF n = 0 THEN {<<>>}
    ELSE LET shorter == SeqBlockLists(n - 1)
         IN  shorter \cup {Append(bs, b) : bs \in {s \in shorter : Len(s) = n - 1},
                                          b \in SeqBlocks}

InitSequence ==
    /\ script = "date-sequence"
    /\ error_date \in SeqTargets
    /\ blocks \in SeqBlockLists(MaxSeqBlocks)
    /\ now = 0
    /\ block_idx = Nothing /\ analysis = Nothing /\ calls = <<>>
    /\ given = <<>>
    /\ text = <<>> /\ dates = Nothing /\ dates_set = Nothing
    /\ baseline_text = <<>> /\ generated_text = <<>>
    /\ llm_dates = Nothing /\ result = Nothing /\ swapped = Nothing
    /\ date_str = <<>> /\ valid = Nothing /\ impossible = Nothing /\ normalized = Nothing
    /\ accuracy = Pct0 /\ grade = Nothing
    /\ MaturityIdle /\ ValidatedIdle /\ SequenceIdle /\ RobustIdle /\ BatchIdle /\ GatherIdle

sequenceFrame == <<script, given, now, extractVars, caseVars, dateVars, gradeVars, classifyVars, maturityVars, validatedVars, outcomes, batch, tasks>>

\* analyze_date_sequence(blocks, error_date): all_dates as the sort leaves
\* it, and the dictionary returned
AnalyzeDateSequence ==
    /\ script = "date-sequence" /\ date_sequence = Nothing
    /\ \E iter \in IterOrders(blocks) :
          LET sorted == SortByPageY(AllDates(blocks, iter, 1))
          IN  date_sequence' = Some([all_dates |-> sorted,
                                     sequence |-> SequenceOf(sorted, error_date)])
    /\ UNCHANGED <<sequenceFrame, close_blocks>>

\* classify_error_type lines 200-217: the block found for error_date, and
\* find_spatially_close_blocks(blocks, found_block, max_distance=50)
FindSpatiallyCloseBlocks ==
    /\ script = "date-sequence" /\ close_blocks = Nothing
    /\ LET fb == find_block_with_date(blocks, error_date)
       IN  /\ fb.raised = "" /\ Val(fb.value) # -1
           /\ close_blocks' =
                 Some([target |-> Val(fb.value),
                       close |-> find_spatially_close_blocks(blocks, blocks[Val(fb.value) + 1], 50)])
    /\ UNCHANGED <<sequenceFrame, date_sequence>>

NextSequence == AnalyzeDateSequence \/ FindSpatiallyCloseBlocks

SpecSequence == InitSequence /\ [][NextSequence]_vars


(***************************************************************************)
(* How the validators end, and the two lists of a case's result            *)
(***************************************************************************)
\* mutant of Caught: the except clause is missing
Caught_Escapes(outcome, default) == outcome

\* try: <body> / except: return default
Caught(outcome, default) == IF outcome.raised # "" THEN Return(default) ELSE outcome

\* validate-dates-28.py / quick-validate-28.py is_impossible_date: the
\* unpacking and int raise ValueError inside the try
try_is_impossible_date(s) ==
    LET p == ParseYmd(s)
    IN  Caught(IF p.ok THEN Return(IsImpossibleYmd(p)) ELSE Raise("ValueError"), TRUE)

\* mutant of try_is_future_date: the except clause answers True
try_is_future_date_TrueOnError(s, today) ==
    LET p == Strptime(s)
    IN  Caught(IF p.ok THEN Return(IsFutureParsed(p, today)) ELSE Raise("ValueError"), TRUE)

\* validate-dates-28.py / quick-validate-28.py is_future_date: strptime
\* raises ValueError inside the try
try_is_future_date(s, today) ==
    LET p == Strptime(s)
    IN  Caught(IF p.ok THEN Return(IsFutureParsed(p, today)) ELSE Raise("ValueError"), FALSE)

\* multi-model-comparison.py is_valid_date
try_is_valid_date(s) ==
    LET p == ParseYmd(s)
    IN  Caught(IF p.ok THEN Return(IsValidYmd(p)) ELSE Raise("ValueError"), FALSE)

\* quick-validate-28.py main, the body of its loop for a case whose two
\* files exist: the QuickValidationResult appended (the two list
\* comprehensions over the set `missing` are kept as sets)
QuickValidationResult(baseline_dates, ocr_dates, today) ==
    LET matched == baseline_dates \cap ocr_dates
        missing == baseline_dates \ ocr_dates
        baseline_count == Cardinality(baseline_dates)
        acc == IF baseline_count > 0 THEN Pct(Cardinality(matched), baseline_count) ELSE Pct100
    IN  [baseline_dates |-> baseline_count,
         ocr_dates |-> Cardinality(ocr_dates),
         matched |-> Cardinality(matched),
         missing |-> Cardinality(missing),
         accuracy |-> acc,
         grade |-> classify_grade(acc),
         impossible_dates |-> {d \in missing : is_impossible_date(d)},
         future_dates |-> {d \in missing : is_future_date(d, today) /\ ~is_impossible_date(d)},
         missing_sample |-> Prefix(Sorted(missing), 5)]

\* mutant of quick_validate: the impossible dates are taken from the whole
\* reference set
quick_validate_FromBaseline(b_text, ocr_text, today) ==
    [QuickValidationResult(extract_dates(b_text), extract_dates(ocr_text), today)
        EXCEPT !.impossible_dates = {d \in extract_dates(b_text) : is_impossible_date(d)}]

quick_validate(b_text, ocr_text, today) ==
    QuickValidationResult(extract_dates(b_text), extract_dates(ocr_text), today)

\* years of the dates given to the validators
RobustYears == {2024, 2054}

\* strings that are no date
Malformed ==
    {<<>>, <<"a", "b", "c">>, <<"2", "0", "2", "4", "-", "0", "5">>,
     <<"2", "0", "2", "4", "0", "5", "0", "1">>,
     Canon(2024, 5, 1) \o <<"-", "0", "1">>,
     <<"2", "0", "2", "4", "-", "a", "a", "-", "0", "1">>,
     <<"2", "0", "5", "4", "-", "-", "1", "0">>,
     Canon(2054, 11, 10) \o <<"x">>}

RobustScripts == {"validate-dates-28", "quick-validate-28"}

\* the reference file holds date_str, a date a month ahead of every day of
\* Todays bar the last, and a date no calendar has; the candidate file is
\* empty or holds date_str
InitRobust ==
    /\ script \in RobustScripts
    /\ \/ \E y \in RobustYears, m \in 0..MaxMonthField, d \in 0..MaxDayField :
            /\ given = [year |-> y, month |-> m, day |-> d]
            /\ date_str = Canon(y, m, d)
       \/ /\ given = <<>>
          /\ date_str \in Malformed
    /\ now \in Todays
    /\ baseline_text = <<"x", " ">> \o date_str \o <<",", " ">> \o Canon(2054, 11, 11)
                         \o <<",", " ">> \o Canon(2023, 2, 30)
    /\ generated_text \in {<<>>, <<"y", " ">> \o date_str}
    /\ outcomes = [impossible |-> Nothing, future |-> Nothing, valid |-> Nothing]
    /\ llm_dates = Nothing /\ result = Nothing /\ swapped = Nothing
    /\ valid = Nothing /\ impossible = Nothing /\ normalized = Nothing
    /\ text = <<>> /\ dates = Nothing /\ dates_set = Nothing
    /\ accuracy = Pct0 /\ grade = Nothing
    /\ ClassifierIdle /\ MaturityIdle /\ ValidatedIdle /\ SequenceIdle /\ BatchIdle /\ GatherIdle

robustFrame == <<script, given, now, extractVars, baseline_text, generated_text, llm_dates, swapped, dateVars, gradeVars, classifyVars, maturityVars, validatedVars, sequenceVars, batch, tasks>>

\* is_impossible_date(date_str)
TryIsImpossibleDate ==
    /\ script \in RobustScripts /\ outcomes # Nothing /\ outcomes.impossible = Nothing
    /\ outcomes' = [outcomes EXCEPT !.impossible = Some(try_is_impossible_date(date_str))]
    /\ UNCHANGED <<robustFrame, result>>

\* is_future_date(date_str)
TryIsFutureDate ==
    /\ script \in RobustScripts /\ outcomes # Nothing /\ outcomes.future = Nothing
    /\ outcomes' = [outcomes EXCEPT !.future = Some(try_is_future_date(date_str, now))]
    /\ UNCHANGED <<robustFrame, result>>

\* multi-model-comparison.py is_valid_date(date_str)
TryIsValidDate ==
    /\ script \in RobustScripts /\ outcomes # Nothing /\ outcomes.valid = Nothing
    /\ outcomes' = [outcomes EXCEPT !.valid = Some(try_is_valid_date(date_str))]
    /\ UNCHANGED <<robustFrame, result>>

\* quick-validate-28.py main: one case, both files present
QuickValidate ==
    /\ script = "quick-validate-28" /\ result = Nothing
    /\ result' = Some(quick_validate(baseline_text, generated_text, now))
    /\ UNCHANGED <<caseFrame, llm_dates, swapped>>

NextRobust ==
    \/ TryIsImpossibleDate
    \/ TryIsFutureDate
    \/ TryIsValidDate
    \/ ValidateCase
    \/ QuickValidate

SpecRobust == InitRobust /\ [][NextRobust]_vars


(***************************************************************************)
(* main: the loop over the cases of validation_cases_28.json               *)
(***************************************************************************)
\* validate-ocr-quality-28.py validate_case(case): open() of an absent OCR
\* file raises inside extract_dates_from_json_ocr, whose except returns
\* set(); an absent GT file gives set()
validate_case_ocr_files(c) ==
    CompareOcr(IF c.ocr_exists THEN extract_dates_from_text_ocr(c.ocr_text) ELSE {},
               IF c.baseline_exists THEN extract_dates_from_text_ocr(c.baseline_text) ELSE {})

\* validate-28-with-llm.py extract_dates_from_text: the four patterns, no filter
extract_dates_from_text_llm(t) == MatchKeys(AllMatches(t, FourPatterns))

\* validate-28-with-llm.py validate_case with both files present, llm being
\* what extract_dates_with_llm returned (set() without a key or on an error)
LlmResult(baseline_dates, ocr_dates_regex, llm) ==
    LET ocr_dates == ocr_dates_regex \cup llm
        matched == baseline_dates \cap ocr_dates
        missing == baseline_dates \ ocr_dates
        acc == IF baseline_dates # {} THEN Pct(Cardinality(matched), Cardinality(baseline_dates))
               ELSE Pct100
    IN  [baseline_dates |-> Cardinality(baseline_dates),
         ocr_dates_regex |-> Cardinality(ocr_dates_regex),
         llm_dates |-> Cardinality(llm),
         ocr_dates_total |-> Cardinality(ocr_dates),
         matched |-> Cardinality(matched),
         missing |-> Cardinality(missing),
         accuracy |-> acc,
         grade |-> classify_grade(acc),
         missing_sample |-> Prefix(Sorted(missing), 5)]

\* validate-28-with-llm.py validate_case(case, api_key, enable_llm): None
\* (Nothing) where a file is absent
validate_case_llm(c, llm) ==
    IF ~c.baseline_exists THEN Nothing
    ELSE IF ~c.ocr_exists THEN Nothing
    ELSE Some(LlmResult(extract_dates_from_text_llm(c.baseline_text),
                        extract_dates_from_text_llm(c.ocr_text), llm))

\* what one turn of main's loop appends to results: Nothing where the case
\* is passed over (continue, or a result that is None)
LoopBody(scr, c, today, llm) ==
    IF scr = "validate-ocr-quality-28"
    THEN Some([name |-> c.name] @@ validate_case_ocr_files(c))
    ELSE IF scr = "validate-28-with-llm"
    THEN (IF Got(validate_case_llm(c, llm))
          THEN Some([name |-> c.name] @@ Val(validate_case_llm(c, llm)))
          ELSE Nothing)
    \* validate-dates-28.py: no generated report found, or no baseline
    ELSE IF ~c.ocr_exists THEN Nothing
    ELSE IF ~c.baseline_exists THEN Nothing
    ELSE Some([name |-> c.name] @@ validate_case(c.baseline_text, c.ocr_text, today))

\* sum(r.accuracy for r in results), as a fraction
RECURSIVE PctSum(_)
PctSum(accs) ==
    IF accs = <<>> THEN [num |-> 0, den |-> 1]
    ELSE LET rest == PctSum(Tail(accs))
         IN  [num |-> accs[1].num * rest.den + rest.num * accs[1].den,
              den |-> accs[1].den * rest.den]

\* the statistics main prints after the loop.  validate-dates-28.py divides
\* the grade counts by total before it takes the average; with-llm returns
\* before the statistics where results is empty; validate-ocr-quality-28.py
\* grades by coverage.
Statistics(scr, results) ==
    LET total == Len(results)
        field == IF scr = "validate-ocr-quality-28" THEN "coverage" ELSE "accuracy"
        sum == PctSum([k \in DOMAIN results |-> results[k][field]])
        avg == IF total > 0 THEN [num |-> sum.num, den |-> sum.den * total]
               ELSE [num |-> 0, den |-> 1]
        cov(k) == results[k].coverage
        counts == IF scr = "validate-ocr-quality-28"
                  THEN [sang |-> Cardinality({k \in DOMAIN results : PctGE(cov(k), 80)}),
                        jung |-> Cardinality({k \in DOMAIN results : PctGE(cov(k), 60) /\ ~PctGE(cov(k), 80)}),
                        ha |-> Cardinality({k \in DOMAIN results : ~PctGE(cov(k), 60)})]
                  ELSE [sang |-> Cardinality({k \in DOMAIN results : results[k].grade = GradeHigh}),
                        jung |-> Cardinality({k \in DOMAIN results : results[k].grade = GradeMedium}),
                        ha |-> Cardinality({k \in DOMAIN results : results[k].grade = GradeLow})]
    IN  IF scr = "validate-28-with-llm" /\ total = 0 THEN Return(Nothing)
        ELSE IF total = 0 THEN Raise("ZeroDivisionError")
        ELSE Return(Some([total |-> total, average |-> avg, grade_counts |-> counts]))

\* a batch has at most MaxCases cases
MaxCases == 2

BatchScripts == {"validate-ocr-quality-28", "validate-28-with-llm", "validate-dates-28"}

\* what may be on disk for a case
CaseDisks ==
    {[baseline_exists |-> be, ocr_exists |-> oe,
      baseline_text |-> IF be THEN bt ELSE <<>>, ocr_text |-> IF oe THEN ot ELSE <<>>] :
        be \in BOOLEAN, oe \in BOOLEAN,
        bt \in {<<"x", " ">> \o Canon(2024, 5, 1) \o <<",", " ">> \o Canon(2024, 11, 10)},
        ot \in {<<"y", " ">> \o Canon(2024, 5, 1), <<"n", "o", "n", "e">>}}

\* the case lists of n cases, each named by its place
RECURSIVE CaseLists(_)
CaseLists(n) ==
    IF n = 0 THEN {<<>>}
    ELSE {Append(cs, [name |-> n] @@ d) : cs \in CaseLists(n - 1), d \in CaseDisks}

InitBatch ==
    /\ script \in BatchScripts
    /\ \E n \in 1..MaxCases : \E cs \in CaseLists(n) :
          batch = [cases |-> cs, next |-> 1, results |-> <<>>, summary |-> Nothing]
    /\ now = Ordinal(2025, 12, 30)
    /\ given = <<>>
    /\ text = <<>> /\ dates = Nothing /\ dates_set = Nothing
    /\ baseline_text = <<>> /\ generated_text = <<>>
    /\ llm_dates = Nothing /\ result = Nothing /\ swapped = Nothing
    /\ date_str = <<>> /\ valid = Nothing /\ impossible = Nothing /\ normalized = Nothing
    /\ accuracy = Pct0 /\ grade = Nothing
    /\ ClassifierIdle /\ MaturityIdle /\ ValidatedIdle /\ SequenceIdle /\ RobustIdle /\ GatherIdle

batchFrame == <<script, given, now, extractVars, caseVars, dateVars, gradeVars, classifyVars, maturityVars, validatedVars, sequenceVars, outcomes, tasks>>

\* what one turn of the loop leaves behind
Looped(r) ==
    batch' = [batch EXCEPT !.next = @ + 1,
                           !.results = IF Got(r) THEN Append(@, Val(r)) ELSE @]

\* one turn of "for ... in enumerate(cases, 1)"
RunCase ==
    /\ script \in BatchScripts /\ batch # Nothing
    /\ batch.next <= Len(batch.cases)
    /\ \E llm \in {{}, {Canon(2024, 11, 10)}} :
          Looped(LoopBody(script, batch.cases[batch.next], now, llm))
    /\ UNCHANGED batchFrame

\* the statistics after the loop
Summarise ==
    /\ script \in BatchScripts /\ batch # Nothing
    /\ batch.next > Len(batch.cases) /\ batch.summary = Nothing
    /\ batch' = [batch EXCEPT !.summary = Some(Statistics(script, batch.results))]
    /\ UNCHANGED batchFrame

NextBatch == RunCase \/ Summarise

SpecBatch == InitBatch /\ [][NextBatch]_vars


(***************************************************************************)
(* The extractors on a text of several date tokens                         *)
(***************************************************************************)
\* a text holds at most MaxTokens date tokens
MaxTokens == 3

\* 2024-05-01 with hyphens, with dots unpadded, with slashes, in the Korean
\* form and with mixed separators; 2024-11-10 with hyphens and mixed
Tokens ==
    <<Render("hyphen", 2024, 5, 1, TRUE, TRUE),
      Render("dot", 2024, 5, 1, FALSE, FALSE),
      Render("slash", 2024, 5, 1, TRUE, TRUE),
      <<"2", "0", "2", "4", "NYEON", " ", "5", "WOL", " ", "1", "IL">>,
      <<"2", "0", "2", "4", "-", "0", "5", ".", "0", "1">>,
      Render("hyphen", 2024, 11, 10, TRUE, TRUE),
      <<"2", "0", "2", "4", ".", "1", "1", "/", "1", "0">>>>

\* what stands between two tokens: a comma and a space, or nothing
Gaps == {<<",", " ">>, <<>>}

RECURSIVE TokenText(_, _)
TokenText(ids, gap) ==
    IF ids = <<>> THEN <<>>
    ELSE IF Len(ids) = 1 THEN Tokens[ids[1]]
    ELSE Tokens[ids[1]] \o gap \o TokenText(Tail(ids), gap)

InitLiteral ==
    /\ script = "extractors"
    /\ \E n \in 1..MaxTokens : \E ids \in [1..n -> DOMAIN Tokens], gap \in Gaps :
            /\ given = [tokens |-> ids, gap |-> gap]
            /\ text = TokenText(ids, gap)
    /\ now = 0
    /\ dates = Nothing /\ dates_set = Nothing
    /\ baseline_text = <<>> /\ generated_text = <<>>
    /\ llm_dates = Nothing /\ result = Nothing /\ swapped = Nothing
    /\ date_str = <<>> /\ valid = Nothing /\ impossible = Nothing /\ normalized = Nothing
    /\ accuracy = Pct0 /\ grade = Nothing
    /\ ClassifierIdle /\ MaturityIdle /\ ValidatedIdle /\ AuditIdle

SpecLiteral == InitLiteral /\ [][NextExtract]_vars


(***************************************************************************)
(* validate_case and main on references with many missing dates            *)
(***************************************************************************)
\* the largest number of dates in a reference file
MaxMissing == 7

SampleKinds == {"impossible", "future", "plain"}

\* the i-th date of a kind: a day February 2023 does not have, a day of
\* January 2060, a day of January 2020
SampleDate(kind, i) ==
    CASE kind = "impossible" -> Canon(2023, 2, 29 + i)
      [] kind = "future" -> Canon(2060, 1, i)
      [] OTHER -> Canon(2020, 1, i)

\* a file's text holding the first k dates of a kind
RECURSIVE SampleText(_, _)
SampleText(kind, k) ==
    IF k = 0 THEN <<>>
    ELSE SampleText(kind, k - 1) \o <<" ">> \o SampleDate(kind, k)

\* the candidate file is empty, or holds the reference's first date, a date
\* with a month no calendar has and a date of 2061 the reference has not
InitSamples ==
    /\ script \in RobustScripts
    /\ \E kind \in SampleKinds, k \in 0..MaxMissing, both \in BOOLEAN :
            /\ given = [kind |-> kind, count |-> k, both |-> both]
            /\ baseline_text = SampleText(kind, k)
            /\ generated_text = IF both
                                THEN SampleText(kind, 1) \o <<" ">> \o Canon(2023, 13, 1)
                                        \o <<" ">> \o Canon(2061, 1, 1)
                                ELSE <<>>
    /\ now \in Todays
    /\ llm_dates = Nothing /\ result = Nothing /\ swapped = Nothing
    /\ text = <<>> /\ dates = Nothing /\ dates_set = Nothing
    /\ date_str = <<>> /\ valid = Nothing /\ impossible = Nothing /\ normalized = Nothing
    /\ accuracy = Pct0 /\ grade = Nothing
    /\ ClassifierIdle /\ MaturityIdle /\ ValidatedIdle /\ AuditIdle

NextSamples == ValidateCase \/ QuickValidate

SpecSamples == InitSamples /\ [][NextSamples]_vars


(***************************************************************************)
(* validate_case_multi_model: the three concurrent model calls             *)
(***************************************************************************)
\* the three coroutines, in the order asyncio.gather is given them
Models == <<"gpt", "gemini", "claude">>

\* how a model call ends: with the dates it extracted, with its own error
\* result (no API key, or an exception its except branch caught), or with
\* an exception that leaves the coroutine
TaskOutcomes ==
    {Return([dates |-> S, meta |-> "success"]) : S \in {{}, {DateKey(2)}, {DateKey(1), DateKey(4)}}}
        \cup {Return([dates |-> {}, meta |-> "error"]), Raise("Exception")}

\* mutant of gather: the results are listed in the order the calls completed
gather_CompletionOrder(done, order) == [i \in DOMAIN Models |-> Val(done[order[i]])]

\* asyncio.gather(gpt_task, gemini_task, claude_task, return_exceptions=True):
\* the results in the order of the awaitables, whatever the order of completion
gather(done, order) == [i \in DOMAIN Models |-> Val(done[Models[i]])]

\* results[i] if not isinstance(results[i], Exception) else (set(), {"error": ...})
Unpacked(r) == IF r.raised # "" THEN [dates |-> {}, meta |-> "error"] ELSE r.value[1]

\* the file of a CSV case has no blocks, so no model is called
InitGather ==
    /\ script = "multi-model-gather"
    /\ \E csv \in BOOLEAN : given = [csv |-> csv]
    /\ baseline_text \in {<<>>, ExampleRef}
    /\ generated_text \in {<<>>, ExampleCand}
    /\ now = 0
    /\ tasks = Nothing
    /\ llm_dates = Nothing /\ result = Nothing /\ swapped = Nothing
    /\ text = <<>> /\ dates = Nothing /\ dates_set = Nothing
    /\ date_str = <<>> /\ valid = Nothing /\ impossible = Nothing /\ normalized = Nothing
    /\ accuracy = Pct0 /\ grade = Nothing
    /\ ClassifierIdle /\ MaturityIdle /\ ValidatedIdle /\ SequenceIdle /\ RobustIdle /\ BatchIdle

gatherFrame == <<script, given, now, extractVars, baseline_text, generated_text, swapped, dateVars, gradeVars, classifyVars, maturityVars, validatedVars, sequenceVars, outcomes, batch>>

\* validate_case_multi_model up to its await: the three calls are started
StartModelCalls ==
    /\ script = "multi-model-gather" /\ tasks = Nothing /\ result = Nothing
    /\ ~given.csv
    /\ tasks' = Some([done |-> [m \in {Models[i] : i \in DOMAIN Models} |-> Nothing],
                      order |-> <<>>])
    /\ UNCHANGED <<gatherFrame, llm_dates, result>>

\* one of the pending calls completes
CompleteModelCall ==
    /\ script = "multi-model-gather" /\ Got(tasks) /\ result = Nothing
    /\ \E m \in DOMAIN Val(tasks).done, o \in TaskOutcomes :
          /\ Val(tasks).done[m] = Nothing
          /\ tasks' = Some([done |-> [Val(tasks).done EXCEPT ![m] = Some(o)],
                            order |-> Append(Val(tasks).order, m)])
    /\ UNCHANGED <<gatherFrame, llm_dates, result>>

\* validate_case_multi_model from the return of its await
GatherModelCalls ==
    /\ script = "multi-model-gather" /\ Got(tasks) /\ result = Nothing
    /\ \A m \in DOMAIN Val(tasks).done : Got(Val(tasks).done[m])
    /\ LET results == gather(Val(tasks).done, Val(tasks).order)
           llm == [gpt |-> Unpacked(results[1]).dates,
                   gemini |-> Unpacked(results[2]).dates,
                   claude |-> Unpacked(results[3]).dates]
       IN  /\ llm_dates' = Some(llm)
           /\ result' = Some(validate_case_multi_model(baseline_text, generated_text, llm))
    /\ UNCHANGED <<gatherFrame, tasks>>

\* validate_case_multi_model on a CSV case
ValidateCsvCase ==
    /\ script = "multi-model-gather" /\ tasks = Nothing /\ result = Nothing
    /\ given.csv
    /\ llm_dates' = Some([gpt |-> {}, gemini |-> {}, claude |-> {}])
    /\ result' = Some(validate_case_multi_model(baseline_text, generated_text, Val(llm_dates')))
    /\ UNCHANGED <<gatherFrame, tasks>>

NextGather ==
    \/ StartModelCalls
    \/ CompleteModelCall
    \/ GatherModelCalls
    \/ ValidateCsvCase

SpecGather == InitGather /\ [][NextGather]_vars


(***************************************************************************)
(* Claims                                                                  *)
(***************************************************************************)
\* C1: whichever of the renderings y-m-d, y.m.d, y/m/d and the Korean form
\* (spaced, unspaced or with spaces around the units; month and day with or
\* without a leading zero) a text holds, extract_dates_comprehensive and
\* extract_dates each yield exactly the one canonical key YYYY-MM-DD of that
\* year, month and day, month and day zero-padded to two digits.
C1_SameCanonicalKey ==
    LET key == Canon(given.year, given.month, given.day)
    IN  script = "extractors" =>
          /\ Got(dates) => DOMAIN Val(dates) = {key}
          /\ Got(dates_set) => Val(dates_set) = {key}

\* the Korean rendering of 2024-05-01, unpadded, has been extracted by both
C1_Witness ==
    /\ script = "extractors"
    /\ text = <<"2", "0", "2", "4", "NYEON", " ", "5", "WOL", " ", "1", "IL">>
    /\ Got(dates) /\ Got(dates_set)
    /\ Val(dates_set) = {<<"2", "0", "2", "4", "-", "0", "5", "-", "0", "1">>}
    /\ DOMAIN Val(dates) = Val(dates_set)


\* C2: in validate-dates-28 and validate-ocr-quality-28, matched = R \cap C,
\* missing = R \ C and extra = C \ R over the canonical keys of the reference
\* set R and the candidate set C; matched and missing partition R, matched and
\* extra partition C, matched_count + missing_count = baseline_date_count and
\* matched_count + extra_count = generated_date_count.
C2_Partition(r, R, C) ==
    /\ r.matched = R \cap C /\ r.missing = R \ C /\ r.extra = C \ R
    /\ r.matched \cup r.missing = R /\ r.matched \cap r.missing = {}
    /\ r.matched \cup r.extra = C /\ r.matched \cap r.extra = {}

C2_MatchedMissingExtra ==
    /\ (script = "validate-dates-28" /\ Got(result)) =>
          LET r == Val(result)
          IN  /\ C2_Partition(r, given.ref, given.cand)
              /\ r.baseline_date_count = Cardinality(given.ref)
              /\ r.generated_date_count = Cardinality(given.cand)
              /\ r.matched_count = Cardinality(r.matched)
              /\ r.missing_count = Cardinality(r.missing)
              /\ r.extra_count = Cardinality(r.extra)
              /\ r.matched_count + r.missing_count = r.baseline_date_count
              /\ r.matched_count + r.extra_count = r.generated_date_count
    /\ (script = "validate-ocr-quality-28" /\ Got(result)) =>
          LET r == Val(result)
          IN  /\ C2_Partition(r, r.gt_dates, r.ocr_dates)
              /\ r.gt_dates \subseteq given.ref
              /\ r.ocr_dates \subseteq given.cand

\* a case with a matched, a missing and an extra date has been compared
C2_Witness ==
    /\ script = "validate-dates-28" /\ Got(result)
    /\ given.ref = {DateKey(1), DateKey(2)} /\ given.cand = {DateKey(1), DateKey(3), DateKey(4)}
    /\ Val(result).matched = {DateKey(1)}
    /\ Val(result).missing_count = 1 /\ Val(result).extra_count = 2

\* C3: when the reference date set is empty, validate-dates-28,
\* validate-ocr-quality-28 and calc_result of multi-model-comparison report
\* accuracy (coverage) 100 whatever the candidate set is, and the grade of
\* that accuracy is the highest tier.
C3_EmptyReferenceIs100 ==
    /\ (script = "validate-dates-28" /\ Got(result) /\ given.ref = {}) =>
          /\ PctEq(Val(result).accuracy, Pct100)
          /\ Val(result).grade = GradeHigh
    /\ (script = "validate-ocr-quality-28" /\ Got(result) /\ Val(result).gt_dates = {}) =>
          /\ PctEq(Val(result).coverage, Pct100)
          /\ classify_grade(Val(result).coverage) = GradeHigh
    /\ (script = "multi-model-comparison" /\ Got(result) /\ Val(result).baseline_dates = 0) =>
          \A k \in {"regex_only", "gpt", "gemini", "claude"} :
              /\ PctEq(Val(result)[k].accuracy, Pct100)
              /\ Val(result)[k].grade = GradeHigh

\* an empty reference has been compared with a candidate holding dates
C3_Witness ==
    /\ script = "validate-dates-28" /\ Got(result)
    /\ given.ref = {} /\ given.cand = {DateKey(1), DateKey(2)}
    /\ Val(result).extra_count = 2 /\ Val(result).matched_count = 0
    /\ Val(result).accuracy = Pct100

\* C4: analyze_case of validate-dates reports coverage_percent 100 whenever
\* the baseline date set is empty, whatever the generated set contains.
C4_AnalyzeCaseEmptyBaseline ==
    (script = "validate-dates" /\ Got(result) /\ Val(result).baseline_dates_count = 0) =>
        PctEq(Val(result).coverage_percent, Pct100)

\* C5: classify_grade gives every accuracy in [0, 100] exactly one grade:
\* high from 80 up, medium from 60 up to but not 80, low below 60; exactly 80
\* is high, the accuracy just below 80 is medium, exactly 60 is medium and the
\* accuracy just below 60 is low.
C5_GradeTiers ==
    (script = "classify_grade" /\ Got(grade)) =>
        /\ Val(grade) \in {GradeHigh, GradeMedium, GradeLow}
        /\ Val(grade) = GradeHigh <=> accuracy.num >= 80 * accuracy.den
        /\ Val(grade) = GradeMedium <=>
              (accuracy.num >= 60 * accuracy.den /\ accuracy.num < 80 * accuracy.den)
        /\ Val(grade) = GradeLow <=> accuracy.num < 60 * accuracy.den
        /\ accuracy.num = 80 * accuracy.den => Val(grade) = GradeHigh
        /\ accuracy.num = 80 * accuracy.den - 1 => Val(grade) = GradeMedium
        /\ accuracy.num = 60 * accuracy.den => Val(grade) = GradeMedium
        /\ accuracy.num = 60 * accuracy.den - 1 => Val(grade) = GradeLow

\* accuracy 79.999 has been graded medium
C5_Witness ==
    /\ script = "classify_grade"
    /\ accuracy = [num |-> 79999, den |-> 1000]
    /\ grade = Some(GradeMedium)

\* the grade of k matched dates out of n reference dates, n > 0
C6_GradeOf(k, n) ==
    IF 100 * k >= 80 * n THEN GradeHigh ELSE IF 100 * k >= 60 * n THEN GradeMedium ELSE GradeLow

\* C6: validate-dates-28 on the example's reference and candidate texts
\* yields matched = {2024-05-01}, missing = {2024-11-10}, extra =
\* {2054-11-10}, accuracy 50 and the low grade; and for every case with a
\* non-empty reference the grade is that of 100 * |ref \cap cand| / |ref|.
C6_EndToEnd ==
    (script = "validate-dates-28" /\ Got(result)) =>
        LET r == Val(result)
        IN  /\ (baseline_text = ExampleRef /\ generated_text = ExampleCand) =>
                  /\ r.matched = {<<"2", "0", "2", "4", "-", "0", "5", "-", "0", "1">>}
                  /\ r.missing = {<<"2", "0", "2", "4", "-", "1", "1", "-", "1", "0">>}
                  /\ r.extra = {<<"2", "0", "5", "4", "-", "1", "1", "-", "1", "0">>}
                  /\ r.missing_dates = <<<<"2", "0", "2", "4", "-", "1", "1", "-", "1", "0">>>>
                  /\ r.accuracy.num = 50 * r.accuracy.den
                  /\ r.grade = GradeLow
            /\ given.ref # {} =>
                  /\ r.accuracy.num * Cardinality(given.ref)
                        = 100 * Cardinality(given.ref \cap given.cand) * r.accuracy.den
                  /\ r.grade = C6_GradeOf(Cardinality(given.ref \cap given.cand),
                                          Cardinality(given.ref))

\* the example has been validated
C6_Witness ==
    /\ script = "validate-dates-28" /\ Got(result)
    /\ baseline_text = ExampleRef /\ generated_text = ExampleCand
    /\ Val(result).matched_count = 1 /\ Val(result).grade = GradeLow

\* the Gregorian calendar
C7_Leap(y) == y % 4 = 0 /\ (y % 100 # 0 \/ y % 400 = 0)
C7_MonthLength(y, m) ==
    IF m \in {4, 6, 9, 11} THEN 30 ELSE IF m = 2 THEN (IF C7_Leap(y) THEN 29 ELSE 28) ELSE 31
C7_Gregorian(y, m, d) == m \in 1..12 /\ d \in 1..C7_MonthLength(y, m)

\* C7: for every canonical date with year in 1950..2100, is_valid_date is
\* TRUE and is_impossible_date FALSE exactly when the month is in 1..12 and
\* the day in 1..length of that month, February having 29 days in leap years.
C7_ValidatorsAgreeWithCalendar ==
    script = "validators" =>
        /\ Got(valid) => Val(valid) = C7_Gregorian(given.year, given.month, given.day)
        /\ Got(impossible) => Val(impossible) = ~C7_Gregorian(given.year, given.month, given.day)

\* 2024-02-29 has been found valid and not impossible
C7_Witness ==
    /\ script = "validators"
    /\ date_str = <<"2", "0", "2", "4", "-", "0", "2", "-", "2", "9">>
    /\ valid = Some(TRUE) /\ impossible = Some(FALSE)

\* C8: with the two sides exchanged the comparison gives the same matched
\* set, and the extra set of one is the missing set of the other.
C8_Symmetry ==
    (script \in {"validate-dates-28", "validate-ocr-quality-28"} /\ Got(result) /\ Got(swapped)) =>
        /\ Val(result).matched = Val(swapped).matched
        /\ Val(result).extra = Val(swapped).missing
        /\ Val(result).missing = Val(swapped).extra

\* a case with different missing and extra sets has been compared both ways
C8_Witness ==
    /\ script = "validate-dates-28" /\ Got(result) /\ Got(swapped)
    /\ Val(result).missing = {DateKey(2)}
    /\ Val(result).extra = {DateKey(3), DateKey(4)}
    /\ Val(swapped).missing = {DateKey(3), DateKey(4)}
    /\ Val(result).matched = {DateKey(1)}

\* C9: in validate-ocr-quality-28 precision is |matched| / |C| * 100 for a
\* non-empty candidate set C and 0 for an empty one, coverage is
\* |matched| / |R| * 100 for a non-empty reference set R and 100 for an empty
\* one; with both sets empty coverage is 100 and precision 0.
C9_PrecisionAndCoverage ==
    (script = "validate-ocr-quality-28" /\ Got(result)) =>
        LET r == Val(result)
            k == Cardinality(r.matched)
            nC == Cardinality(r.ocr_dates)
            nR == Cardinality(r.gt_dates)
        IN  /\ nC > 0 => r.precision.num * nC = 100 * k * r.precision.den
            /\ nC = 0 => r.precision.num = 0
            /\ nR > 0 => r.coverage.num * nR = 100 * k * r.coverage.den
            /\ nR = 0 => r.coverage.num = 100 * r.coverage.den
            /\ (nC = 0 /\ nR = 0) => (r.coverage = Pct100 /\ r.precision = Pct0)

\* two empty sets have been compared: coverage 100, precision 0
C9_Witness ==
    /\ script = "validate-ocr-quality-28" /\ Got(result)
    /\ Val(result).ocr_dates = {} /\ Val(result).gt_dates = {}
    /\ Val(result).coverage = Pct100 /\ Val(result).precision = Pct0

\* a string of the canonical shape YYYY-MM-DD
C10_Canonical(s) ==
    /\ Len(s) = 10
    /\ \A j \in {1, 2, 3, 4, 6, 7, 9, 10} : IsDigit(s[j])
    /\ s[5] = "-" /\ s[8] = "-"

\* C10: normalize_date and normalize_date_format return a canonical string
\* unchanged, applying either twice gives what applying it once gives, and
\* extract_dates of a canonical string is exactly that string.
C10_NormalizeIdempotent ==
    /\ (script \in {"normalize_date", "normalize_date_format"} /\ Got(normalized)) =>
          /\ Val(normalized).twice = Val(normalized).once
          /\ C10_Canonical(date_str) => Val(normalized).once = date_str
    /\ (script = "extract_dates" /\ Got(dates_set) /\ C10_Canonical(date_str)) =>
          Val(dates_set) = {date_str}

\* 2024.5.1 has been normalised to 2024-05-01, and that to itself
C10_Witness ==
    /\ script = "normalize_date_format"
    /\ date_str = <<"2", "0", "2", "4", ".", "5", ".", "1">>
    /\ Got(normalized)
    /\ Val(normalized).once = <<"2", "0", "2", "4", "-", "0", "5", "-", "0", "1">>
    /\ Val(normalized).twice = Val(normalized).once


\* the number of digits in the run of digits that the token's year is
C11_YearRun ==
    Len(given.year_digits) + Len(SelectSeq(given.before, IsDigit))

\* C11: a date-shaped token whose year part is not exactly four digits (its
\* year digits come right after another digit, or are fewer than four)
\* contributes no canonical date: extract_dates_comprehensive and
\* extract_dates_from_text yield nothing from it.
C11_YearOfFourDigits ==
    C11_YearRun # 4 =>
        /\ Got(dates) => DOMAIN Val(dates) = {}
        /\ Got(dates_set) => Val(dates_set) = {}


\* the classifier has returned a record for a date it found in a block, and
\* the date is three numbers
ClaimAnalysis == Val(Val(analysis).value)
ClaimFound ==
    /\ script = "deep-ocr-error-analysis" /\ Got(analysis)
    /\ Val(analysis).raised = "" /\ ClaimAnalysis.found_in_blocks
ClaimYmd == ParseYmd(error_date)
ClaimInCalendar ==
    /\ ClaimYmd.month \in 1..12
    /\ ClaimYmd.day \in 1..C7_MonthLength(ClaimYmd.year, ClaimYmd.month)

\* C12 as claimed: for every discrepant date found in a source block whose
\* month or day is outside the calendar's range for that month and year (day
\* 30 or 31 of a shorter month and 29 February of a common year included),
\* classify_error_type returns the recognition-error label.
C12_CalendarRangeIsRecognitionError ==
    (ClaimFound /\ ~ClaimInCalendar) => ClaimAnalysis.error_type = RecognitionError

\* C12 as amended: for a date found in a source block, classify_error_type
\* returns the recognition-error label when the month is outside 1..12, the
\* day outside 1..31 or the year outside 1950..2026; a day within 1..31 that
\* the month does not have, the year being within 1950..2026, gets the label
\* of a date-shaped but invalid number run instead.
C12_RangeErrorsByKind ==
    (ClaimFound /\ ~ClaimInCalendar) =>
        ClaimAnalysis.error_type =
            (IF \/ ClaimYmd.month \notin 1..12 \/ ClaimYmd.day \notin 1..31
                \/ ClaimYmd.year \notin 1950..2026
             THEN RecognitionError ELSE NumberRun)

\* 2023-02-29, found in its block, has been labelled a number run
C12_Witness ==
    /\ ClaimFound
    /\ error_date = Canon(2023, 2, 29)
    /\ ClaimAnalysis.error_type = NumberRun
    /\ ClaimAnalysis.reasoning = <<Sentence("date_shaped_but_invalid", <<>>)>>


\* the date found is a real calendar date of a year within 1950..2026
C13_Case == ClaimFound /\ ClaimInCalendar /\ ClaimYmd.year \in 1950..2026
C13_AfterNow == Ordinal(ClaimYmd.year, ClaimYmd.month, ClaimYmd.day) > now
C13_Keywords == Val(ClaimAnalysis.medical_keywords)

\* C13 as claimed: for a date found in a block that is calendar-valid, of a
\* year within 1950..2026 and after now, the label is the one of a non-date
\* taken for a date when no keyword is found in the surrounding text and a
\* different label when a keyword is found; a past calendar-valid date gets
\* an outcome whose label differs from both.
C13_LabelDependsOnKeywords ==
    C13_Case =>
        /\ (C13_AfterNow /\ C13_Keywords = <<>>) => ClaimAnalysis.error_type = Misrecognised
        /\ (C13_AfterNow /\ C13_Keywords # <<>>) => ClaimAnalysis.error_type # Misrecognised
        /\ ~C13_AfterNow => ClaimAnalysis.error_type # Misrecognised

\* C13 as amended: for a date found in a block that is calendar-valid and of
\* a year within 1950..2026 the label is the same, that of a non-date taken
\* for a date, whether or not the date is after now and whether or not a
\* keyword is found; the three cases differ in the rationale only: after now
\* without keywords it speaks of a number run taken for a date, after now
\* with keywords it lists the first five and speaks of a planned event, and
\* not after now it speaks of a date missing from the baseline.  The keywords
\* are those in the texts of the blocks up to five before and after the
\* block found.
C13_RationaleDependsOnKeywords ==
    C13_Case =>
        /\ ClaimAnalysis.error_type = Misrecognised
        /\ ClaimAnalysis.reasoning =
             (IF ~C13_AfterNow
              THEN <<Sentence("past_date_missing_from_baseline", <<>>)>>
              ELSE IF C13_Keywords = <<>>
              THEN <<Sentence("future_date", <<>>), Sentence("few_keywords_number_run", <<>>)>>
              ELSE <<Sentence("future_date", <<>>),
                     Sentence("keywords_found", <<FirstN(C13_Keywords, 5)>>),
                     Sentence("maybe_planned_event", <<>>)>>)
        /\ LET at == ClaimAnalysis.block_index + 1
                first == IF at - 5 > 1 THEN at - 5 ELSE 1
                last == IF at + 5 < Len(blocks) THEN at + 5 ELSE Len(blocks)
            IN  C13_Keywords = extract_medical_keywords(
                    Join([k \in 1..(last - first + 1) |-> blocks[first + k - 1].text]))

\* 2025-12-31, the day after now, found next to a block of keywords
C13_Witness ==
    /\ C13_Case /\ C13_AfterNow
    /\ error_date = Canon(2025, 12, 31)
    /\ C13_Keywords = << <<"JIN", "DAN">>, <<"C", "T">> >>
    /\ ClaimAnalysis.error_type = Misrecognised
    /\ Len(ClaimAnalysis.reasoning) = 3


\* find_block_with_date has come back with an index
ClaimIndexed ==
    /\ script = "deep-ocr-error-analysis" /\ Got(block_idx)
    /\ Val(block_idx).raised = ""
ClaimIndex == Val(Val(block_idx).value)

\* the literal renderings of the canonical date that ClaimYmd is: hyphen, dot,
\* slash and the Korean form spaced and unspaced, month and day each with and
\* without a leading zero
ClaimRenderings ==
    {Render(st, ClaimYmd.year, ClaimYmd.month, ClaimYmd.day, padM, padD) :
        st \in {"hyphen", "dot", "slash", "korean", "korean_tight"},
        padM \in BOOLEAN, padD \in BOOLEAN}
ClaimHolds(k) == \E r \in ClaimRenderings : Contains(blocks[k].text, r)

\* C14: find_block_with_date locates a canonical date whenever some block's
\* text contains a literal rendering of it (hyphen, dot, slash, Korean spaced
\* or unspaced, zero-padded or not); so every date that the extractor
\* extracts from some block's text is found, with an index other than -1.
C14_EveryRenderingIsFound ==
    (script = "deep-ocr-error-analysis" /\ Got(block_idx) /\ ClaimYmd.ok) =>
        /\ (\E k \in DOMAIN blocks : ClaimHolds(k)) => (ClaimIndexed /\ ClaimIndex # -1)
        /\ (\E k \in DOMAIN blocks : error_date \in extract_dates_from_text_deep(blocks[k].text))
              => (ClaimIndexed /\ ClaimIndex # -1)

\* C15: an index i >= 0 that find_block_with_date returns is the smallest
\* index of a block whose text contains some literal rendering of the date,
\* and it returns -1 only if no block contains any rendering.
C15_SmallestIndex ==
    (ClaimIndexed /\ ClaimYmd.ok) =>
        /\ ClaimIndex >= 0 =>
              /\ ClaimHolds(ClaimIndex + 1)
              /\ \A k \in 1..ClaimIndex : ~ClaimHolds(k)
        /\ ClaimIndex = -1 => \A k \in DOMAIN blocks : ~ClaimHolds(k)

\* C16: classify_error_type lets no exception escape: for every error_date
\* string, three '-'-separated numbers or not, in some block or not, and
\* every block list, it returns an ErrorAnalysis record.
C16_NoExceptionEscapes ==
    (script = "deep-ocr-error-analysis" /\ Got(analysis)) => Val(analysis).raised = ""


\* C19: if the discrepant date is not located in any block
\* (find_block_with_date returns -1), classify_error_type short-circuits: it
\* returns, raising nothing, the record with found_in_blocks false,
\* block_index -1 and the label "baseline_error", whose surrounding text,
\* coordinates, spatial context and keywords are left at their defaults, and
\* it has called none of the window, spatial, sequence and keyword helpers.
C19_NotFoundShortCircuits ==
    (ClaimIndexed /\ ClaimIndex = -1) =>
        /\ Got(analysis) /\ Val(analysis).raised = ""
        /\ ~ClaimAnalysis.found_in_blocks
        /\ ClaimAnalysis.block_index = -1
        /\ ClaimAnalysis.error_type = BaselineError
        /\ ClaimAnalysis.error_date = error_date
        /\ ClaimAnalysis.surrounding_text = Nothing
        /\ ClaimAnalysis.coordinates = Nothing
        /\ ClaimAnalysis.spatial_context = <<>>
        /\ ClaimAnalysis.medical_keywords = Nothing
        /\ calls = <<"find_block_with_date">>

\* 2024-05-01 is in neither of two blocks, one with keywords and one with
\* another date, and the classifier has returned the short record
C19_Witness ==
    /\ ClaimIndexed /\ ClaimIndex = -1
    /\ error_date = Canon(2024, 5, 1)
    /\ Len(blocks) = 2
    /\ blocks[1].text = <<"JIN", "DAN", " ", "C", "T">>
    /\ blocks[2].text = <<"a", " ">> \o Canon(2024, 1, 15)
    /\ ClaimAnalysis.error_type = BaselineError
    /\ calls = <<"find_block_with_date">>

\* the date found has a month in 1..12, a day in 1..31 and a year outside
\* 1950..2026
C20_Case ==
    /\ ClaimFound
    /\ ClaimYmd.month \in 1..12 /\ ClaimYmd.day \in 1..31
    /\ ClaimYmd.year \notin 1950..2026
C20_Neighbours == SelectSeq(ClaimAnalysis.reasoning, LAMBDA s : s.say = "sequence")
C20_Extracted ==
    \E k \in DOMAIN blocks : error_date \in extract_dates_from_text_deep(blocks[k].text)

\* C20 as claimed: for every date found in a block whose month is in 1..12,
\* day in 1..31 and year outside 1950..2026, classify_error_type returns the
\* recognition-error label and its rationale carries the date's neighbours in
\* the chronological sequence; so it does for 2054-11-10 of the example.
C20_YearOutOfRangeCarriesNeighbours ==
    C20_Case =>
        /\ ClaimAnalysis.error_type = RecognitionError
        /\ C20_Neighbours # <<>>

\* C20 as amended: for every such date classify_error_type returns the
\* recognition-error label and its rationale names the year; the rationale
\* carries the neighbours (at most two before, at most two after, each a date
\* extracted from a block, with its page) exactly when analyze_date_sequence
\* finds the date in the sequence, that is when the year is within 1900..2100
\* and the extractor yields the date from some block's text; 2054-11-10 of
\* the example, found in the candidate text, is such a date.
C20_YearOutOfRange ==
    C20_Case =>
        /\ ClaimAnalysis.error_type = RecognitionError
        /\ ClaimAnalysis.reasoning[1] = Sentence("year_misread", <<Dec(ClaimYmd.year)>>)
        /\ Len(ClaimAnalysis.reasoning) = 1 + Len(C20_Neighbours)
        /\ C20_Neighbours # <<>> <=> (ClaimYmd.year \in 1900..2100 /\ C20_Extracted)
        /\ \A j \in DOMAIN C20_Neighbours :
              LET a == C20_Neighbours[j].args
                  entry(e) == \E k \in DOMAIN blocks :
                                 /\ e[1] \in extract_dates_from_text_deep(blocks[k].text)
                                 /\ e[2] = blocks[k].page
              IN  /\ a[2] = error_date
                  /\ Len(a[1]) <= 2 /\ Len(a[3]) <= 2
                  /\ \A i \in DOMAIN a[1] : entry(a[1][i])
                  /\ \A i \in DOMAIN a[3] : entry(a[3][i])
        /\ (error_date = DateKey(3) /\ \E k \in DOMAIN blocks : blocks[k].text = ExampleCand)
              => C20_Neighbours # <<>>

\* 2054-11-10 has been found in the candidate text of the example, which
\* stands below a block with another date, and labelled a recognition error
\* with the other block's date among its neighbours
C20_Witness ==
    /\ C20_Case
    /\ error_date = DateKey(3)
    /\ Len(blocks) = 2
    /\ blocks[1].text = <<"a", " ">> \o Canon(2024, 1, 15) /\ blocks[1].y = 10
    /\ blocks[2].text = ExampleCand /\ blocks[2].y = 20
    /\ ClaimAnalysis.block_index = 1
    /\ ClaimAnalysis.error_type = RecognitionError
    /\ Len(C20_Neighbours) = 1
    /\ \E i \in DOMAIN C20_Neighbours[1].args[1] :
          C20_Neighbours[1].args[1][i] = <<Canon(2024, 1, 15), 1>>


\* the date written is a real calendar date / lies more than 365 * 50 days
\* after the day of the evaluation
C17_Real == C7_Gregorian(given.year, given.month, given.day)
C17_Beyond == C17_Real /\ Ordinal(given.year, given.month, given.day) > now + 365 * 50

\* C17: under the fifty-year profile is_valid_date and is_valid_date_enhanced
\* return false for every date more than 365 * 50 days after the evaluation
\* time, whatever its month and day, and true for every real calendar date
\* of a year in 1950..2100 that is not beyond that limit.
C17_FiftyYearLimit ==
    script = "maturity" =>
        \A v \in {valid_llm, valid_enhanced} :
            Got(v) =>
                /\ C17_Beyond => ~Val(v)
                /\ (C17_Real /\ given.year \in 1950..2100 /\ ~C17_Beyond) => Val(v)


\* the canonical string k is a real calendar date of a year in 1950..2100
C18_RealDate(k) ==
    LET p == ParseYmd(k)
    IN  p.ok /\ p.year \in 1950..2100 /\ C7_Gregorian(p.year, p.month, p.day)

\* C18: in validated mode the extractor inserts only dates that pass the
\* date validator: every date that extract_dates_from_text of
\* validate-ocr-quality-28 and of multi-model-comparison returns is a real
\* calendar date of a year in 1950..2100, so that neither 2023-02-30 nor
\* 2024-04-31 is ever in the returned set.
C18_OnlyRealDates ==
    script = "validated" =>
        \A v \in {ocr_validated, multi_validated} :
            Got(v) => \A k \in Val(v) : C18_RealDate(k)


\* the entries of all_dates
ClaimSequence == Val(date_sequence).all_dates

\* entries a and b, a before b, stand in the order of (page, y)
ClaimPageYOrder(a, b) == a.page < b.page \/ (a.page = b.page /\ a.y <= b.y)

\* C21: the chronological index that analyze_date_sequence builds holds only
\* valid calendar dates: each entry's month is in 1..12 and its day exists in
\* that month of that year; and the entries are in ascending order of
\* (page, y-coordinate).
C21_IndexHoldsCalendarDates ==
    (script = "date-sequence" /\ Got(date_sequence)) =>
        /\ \A k \in DOMAIN ClaimSequence :
              LET p == ParseYmd(ClaimSequence[k].date)
              IN  p.ok /\ C7_Gregorian(p.year, p.month, p.day)
        /\ \A j, k \in DOMAIN ClaimSequence :
              j < k => ClaimPageYOrder(ClaimSequence[j], ClaimSequence[k])


\* C22: an impossible date is never also flagged future: the impossible_dates
\* and future_dates of every validation result (validate-dates-28
\* validate_case, quick-validate-28 main) have no date in common, and
\* is_future_date returns false for every string for which is_impossible_date
\* returns true.
C22_ImpossibleIsNeverFuture ==
    /\ (script \in RobustScripts /\ Got(result)) =>
          Val(result).impossible_dates \cap Val(result).future_dates = {}
    /\ (outcomes # Nothing /\ Got(outcomes.impossible) /\ Got(outcomes.future)) =>
          (Val(outcomes.impossible) = Return(TRUE) => Val(outcomes.future) = Return(FALSE))

\* both of a result's lists hold a date, and a date that lies after the
\* threshold is called impossible and not future
C22_Witness ==
    /\ script \in RobustScripts /\ Got(result)
    /\ Val(result).impossible_dates # {} /\ Val(result).future_dates # {}
    /\ given # <<>> /\ given.year = 2054 /\ given.month = 12 /\ given.day = 32
    /\ date_str \in Val(result).impossible_dates
    /\ outcomes # Nothing /\ Got(outcomes.impossible) /\ Got(outcomes.future)
    /\ Val(outcomes.impossible) = Return(TRUE)


\* the calls made so far
C23_Made == {f \in {"impossible", "future", "valid"} : Got(outcomes[f])}

\* C23: the validator predicates never raise: for every input string, also
\* one with a component that is no number or with the wrong number of parts
\* between '-', is_impossible_date returns true, is_future_date returns false
\* and is_valid_date returns false.
C23_ValidatorsNeverRaise ==
    outcomes # Nothing =>
        /\ \A f \in C23_Made : Val(outcomes[f]).raised = ""
        /\ date_str \in Malformed =>
              /\ "impossible" \in C23_Made => Val(outcomes.impossible) = Return(TRUE)
              /\ "future" \in C23_Made => Val(outcomes.future) = Return(FALSE)
              /\ "valid" \in C23_Made => Val(outcomes.valid) = Return(FALSE)

\* the three predicates have been called on a string with a component that
\* is no number
C23_Witness ==
    /\ outcomes # Nothing
    /\ C23_Made = {"impossible", "future", "valid"}
    /\ date_str = <<"2", "0", "2", "4", "-", "a", "a", "-", "0", "1">>


\* the cases whose reference file and candidate file both exist
C24_Present == {k \in DOMAIN batch.cases :
                   batch.cases[k].baseline_exists /\ batch.cases[k].ocr_exists}

\* the cases that have a result
C24_Reported == {batch.results[k].name : k \in DOMAIN batch.results}

\* C24: in a batch run a case whose reference file or candidate file is
\* absent is skipped: it has no validation result and adds nothing to the
\* averages and grade counts, and every other case of the batch is processed:
\* after the loop the results are those of the cases with both files, one
\* each, and the statistics count exactly these.
C24_AbsentFileIsSkipped ==
    (script \in BatchScripts /\ batch # Nothing /\ batch.next > Len(batch.cases)) =>
        /\ C24_Reported = C24_Present
        /\ Len(batch.results) = Cardinality(C24_Present)
        /\ (Got(batch.summary) /\ Val(batch.summary).raised = ""
              /\ Got(Val(Val(batch.summary).value))) =>
              LET s == Val(Val(Val(batch.summary).value))
              IN  /\ s.total = Cardinality(C24_Present)
                  /\ s.grade_counts.sang + s.grade_counts.jung + s.grade_counts.ha
                        = Cardinality(C24_Present)


\* the place in the matches ms of the first match whose canonical date is k
C25_First(ms, k) == Least({j \in DOMAIN ms : MatchKey(ms[j]) = k})

\* d maps the canonical dates of the matches ms, each to the literal of its
\* first match
C25_Holds(ms, d) ==
    /\ DOMAIN d = {MatchKey(ms[j]) : j \in DOMAIN ms}
    /\ \A k \in DOMAIN d : d[k] = ms[C25_First(ms, k)].group0

\* C25: the mapping extract_dates_comprehensive returns has the canonical
\* dates of the four patterns' matches as its keys, each once, and holds for
\* each key the literal of the first match that produced it: no later match,
\* under the same or a later pattern, earlier or later in the text, changes it.
C25_FirstLiteralWins ==
    (script = "extractors" /\ Got(dates) /\ "tokens" \in DOMAIN given) =>
        C25_Holds(AllMatches(text, FourPatterns), Val(dates))

\* 2024.5.1 stands before 2024-05-01 in the text; the hyphen pattern runs
\* first, and its literal is the one kept
C25_Witness ==
    /\ script = "extractors" /\ Got(dates)
    /\ text = Tokens[2] \o <<",", " ">> \o Tokens[1]
    /\ Val(dates)[Canon(2024, 5, 1)] = Tokens[1]


\* C28: the extractor with one pattern of the class [-./] at both separators
\* (validate-dates-28 extract_dates) and the extractor of the four patterns
\* hyphen, dot, slash and Korean, each applied on its own (analyze-all-error-
\* cases extract_dates_comprehensive, validate-28-with-llm
\* extract_dates_from_text), return the same set of canonical dates for every
\* text, also where the separators of a token are mixed, as in 2024-05.01,
\* and where tokens are adjacent or overlap.
C28_CombinedEqualsFourPatterns ==
    (script = "extractors" /\ Got(dates) /\ Got(dates_set)) =>
        Val(dates_set) = DOMAIN Val(dates)


\* the found block, and the entries computed for it
C26_Target == blocks[Val(close_blocks).target + 1]
C26_Close == Val(close_blocks).close

\* four times the square of the distance between the centres of a and b
C26_Distance4(a, b) ==
    ((2 * a.x + a.width) - (2 * b.x + b.width)) * ((2 * a.x + a.width) - (2 * b.x + b.width))
      + ((2 * a.y + a.height) - (2 * b.y + b.height)) * ((2 * a.y + a.height) - (2 * b.y + b.height))

\* the entries are those of the blocks of the page at a distance below 50
\* (or, at_fifty holding, not above 50), each once with its own distance, in
\* ascending order of distance; none is of another page; the found block is
\* among them at distance 0
C26_Exactly(at_fifty) ==
    /\ {C26_Close[k].i + 1 : k \in DOMAIN C26_Close}
          = {i \in DOMAIN blocks : blocks[i].page = C26_Target.page
                                     /\ (IF at_fifty
                                         THEN C26_Distance4(C26_Target, blocks[i]) <= 4 * 50 * 50
                                         ELSE C26_Distance4(C26_Target, blocks[i]) < 4 * 50 * 50)}
    /\ \A j, k \in DOMAIN C26_Close : j # k => C26_Close[j].i # C26_Close[k].i
    /\ \A k \in DOMAIN C26_Close :
          /\ blocks[C26_Close[k].i + 1].page = C26_Target.page
          /\ C26_Close[k].distance = C26_Distance4(C26_Target, blocks[C26_Close[k].i + 1])
    /\ \A j, k \in DOMAIN C26_Close : j < k => C26_Close[j].distance <= C26_Close[k].distance
    /\ \E k \in DOMAIN C26_Close : C26_Close[k].i = Val(close_blocks).target
                                     /\ C26_Close[k].distance = 0

\* C26 as stated: the spatially close blocks computed for a found block are
\* exactly the blocks of its page whose centre lies within the distance 50
\* of its centre (a block at the distance 50 too), in ascending order of
\* distance; no block of another page is among them, and the found block is,
\* at distance 0.
C26_WithinFifty ==
    (script = "date-sequence" /\ Got(close_blocks)) =>
        C26_Exactly(TRUE)

\* C26, amended: the same with the centre at a distance below 50: a block
\* whose centre is at the distance 50 is left out.
C26_BelowFifty ==
    (script = "date-sequence" /\ Got(close_blocks)) =>
        C26_Exactly(FALSE)

\* the found block is the first of two blocks of page 1, the centre of the
\* second is at the distance 50, and only the found block is listed
C26_Witness ==
    /\ script = "date-sequence" /\ Got(close_blocks)
    /\ Len(blocks) = 2 /\ Val(close_blocks).target = 0
    /\ blocks[2].page = blocks[1].page
    /\ C26_Distance4(blocks[1], blocks[2]) = 4 * 50 * 50
    /\ C26_Close = <<[i |-> 0, distance |-> 0]>>


\* the number of entries the script keeps of the sorted missing dates
C27_Limit == IF script = "validate-dates-28" THEN 10 ELSE 5

C27_MissingSample ==
    IF script = "validate-dates-28" THEN Val(result).missing_dates ELSE Val(result).missing_sample

\* C27: in a per-case validation result the impossible-date list, the
\* future-flagged-date list and the missing-date list each hold at most the
\* script's fixed number of entries, however many dates are missing from the
\* candidate.
C27_SamplesAreBounded ==
    (script \in RobustScripts /\ Got(result)) =>
        /\ Len(C27_MissingSample) <= C27_Limit
        /\ Cardinality(Val(result).impossible_dates) <= C27_Limit
        /\ Cardinality(Val(result).future_dates) <= C27_Limit

\* reference minus candidate, from the two files
C30_Missing == extract_dates(baseline_text) \ extract_dates(generated_text)

\* C30: in every validation result the impossible_dates and future_dates
\* lists are subsets of the full missing set (reference minus candidate): a
\* date of the candidate, extra or in both sets, is in neither list however
\* implausible it is.
C30_ListsAreSubsetsOfMissing ==
    (script \in RobustScripts /\ Got(result)) =>
        /\ Val(result).impossible_dates \subseteq C30_Missing
        /\ Val(result).future_dates \subseteq C30_Missing
        /\ \A d \in extract_dates(generated_text) :
              d \notin Val(result).impossible_dates /\ d \notin Val(result).future_dates

\* a result for a reference of three impossible dates of which the candidate
\* holds the first, next to an impossible and a future date of its own
C30_Witness ==
    /\ script = "quick-validate-28" /\ Got(result)
    /\ given = [kind |-> "impossible", count |-> 3, both |-> TRUE]
    /\ is_impossible_date(Canon(2023, 2, 30)) /\ is_impossible_date(Canon(2023, 13, 1))
    /\ is_future_date(Canon(2061, 1, 1), now)
    /\ {Canon(2023, 2, 30), Canon(2023, 13, 1), Canon(2061, 1, 1)} \subseteq extract_dates(generated_text)
    /\ Canon(2023, 2, 30) \in extract_dates(baseline_text)
    /\ Val(result).impossible_dates = {Canon(2023, 2, 31), Canon(2023, 2, 32)}
    /\ Val(result).future_dates = {}

\* the dates the call of model m came back with (none when it failed)
C29_Own(m) ==
    IF Got(tasks) THEN Unpacked(Val(Val(tasks).done[m])).dates ELSE {}

\* the call of model m ended with an error result or an exception, or was
\* never made
C29_Failed(m) ==
    Got(tasks) => \/ Val(Val(tasks).done[m]).raised # ""
                  \/ Val(Val(tasks).done[m]).value[1].meta = "error"

\* the share of the reference dates found among the regex dates and S
C29_Accuracy(S) ==
    LET baseline_dates == extract_dates_from_text_multi(baseline_text)
        found == baseline_dates \cap (extract_dates_from_text_multi(generated_text) \cup S)
    IN  IF baseline_dates = {} THEN [num |-> 100, den |-> 1]
        ELSE [num |-> 100 * Cardinality(found), den |-> Cardinality(baseline_dates)]

C29_SameShare(a, b) == a.num * b.den = b.num * a.den
C29_AtLeast(a, b) == a.num * b.den >= b.num * a.den

\* C29: in validate_case_multi_model, whatever the order in which the three
\* model calls complete and whichever of them fail, each model's accuracy is
\* computed from the regex dates united with that model's own dates only, so
\* it is never below the regex-only accuracy, equals it when the call failed,
\* and does not depend on the other models' outcomes.
C29_EachModelFromItsOwnDates ==
    (script = "multi-model-gather" /\ Got(result)) =>
        /\ C29_SameShare(Val(result).regex_only.accuracy, C29_Accuracy({}))
        /\ \A m \in {"gpt", "gemini", "claude"} :
              /\ C29_SameShare(Val(result)[m].accuracy, C29_Accuracy(C29_Own(m)))
              /\ C29_AtLeast(Val(result)[m].accuracy, Val(result).regex_only.accuracy)
              /\ C29_Failed(m) =>
                    C29_SameShare(Val(result)[m].accuracy, Val(result).regex_only.accuracy)

\* the calls completed last to first: gpt raised, gemini returned its error
\* result, claude found the reference date the regex missed
C29_Witness ==
    /\ script = "multi-model-gather" /\ Got(result) /\ Got(tasks)
    /\ baseline_text = ExampleRef /\ generated_text = ExampleCand
    /\ Val(tasks).order = <<"claude", "gemini", "gpt">>
    /\ Val(tasks).done["gpt"] = Some(Raise("Exception"))
    /\ Val(tasks).done["gemini"] = Some(Return([dates |-> {}, meta |-> "error"]))
    /\ Val(tasks).done["claude"] = Some(Return([dates |-> {DateKey(2)}, meta |-> "success"]))
    /\ C29_SameShare(Val(result).regex_only.accuracy, [num |-> 50, den |-> 1])
    /\ C29_SameShare(Val(result).gpt.accuracy, [num |-> 50, den |-> 1])
    /\ C29_SameShare(Val(result).gemini.accuracy, [num |-> 50, den |-> 1])
    /\ C29_SameShare(Val(result).claude.accuracy, [num |-> 100, den |-> 1])
=============================================================================
